---- MODULE Spec2Model ----
\* mcp-grocy: configuration resolution, module discovery, the tool registry and
\* the MCP server's list-tools / call-tool handlers, as a state machine.
EXTENDS Integers, Sequences, FiniteSets, TLC

VARIABLES
    env,               \* process.env: the six variables EnvironmentSchema reads for the overrides
    file,              \* the YAML configuration file found by findConfigFile
    config,            \* ConfigManager.instance: the parsed environment and the resolved yaml
    proc,              \* the process: running, or exited with a code
    log,               \* logger.error / logger.warn records, in order
    pc,                \* position of the start-up flow (main -> create -> constructor -> start)
    folderContent,     \* what `import('./<folder>/index.js')` gives for each tool folder
    readdirOk,         \* whether readdirSync(toolsDir) succeeds
    discoveredFolders, \* ModuleLoader.discoveredFolders
    moduleCache,       \* ModuleLoader.moduleCache
    loadCall,          \* the running loadAllModules call: pending imports and settled results
    toolModules,       \* the value loadAllModules resolved to
    registry,          \* the object createToolRegistry returned
    enabledTools,      \* GrocyMcpServer.enabledTools
    toolSubConfigs,    \* GrocyMcpServer.toolSubConfigs
    server,            \* request handlers registered / transport connected
    last,              \* the last request served and its response
    nReq,              \* number of requests served
    validation,        \* a SubConfigValidator call: the Map it was given and how it ended
    parsedTools,       \* what a caller of parseToolConfiguration() was given
    instanceCalls,     \* the runs of loadConfig and what each getInstance() call returned
    callers,           \* loadAllModules calls of any caller: pending imports, results, value
    importCount,       \* how many times import() was called for each tool folder
    execution,         \* an executeToolHandler call: the logger, the wrapped handler, how it settled
    http,              \* startHttpServer's session tables, the transports and the last response
    cooking            \* Grocy's meal plan entry and stock, and the cookedSomething invocations

vars == <<env, file, config, proc, log, pc, folderContent, readdirOk, discoveredFolders,
          moduleCache, loadCall, toolModules, registry, enabledTools, toolSubConfigs,
          server, last, nReq, validation, parsedTools, instanceCalls, callers, importCount,
          execution, http, cooking>>

\* The variables of the start-up flow, the loader and the stdio server
serverVars == <<env, file, config, proc, log, pc, folderContent, readdirOk, discoveredFolders,
                moduleCache, loadCall, toolModules, registry, enabledTools, toolSubConfigs,
                server, last, nReq, validation, parsedTools, instanceCalls, callers,
                importCount>>

\* ---------------------------------------------------------------- values
\* JavaScript values as they come out of YAML.parse
Undef == [t |-> "undefined"]
B(b) == [t |-> "boolean", v |-> b]
N(n) == [t |-> "number", v |-> n]
S(s) == [t |-> "string", v |-> s]

\* JavaScript truthiness
Truthy(x) ==
    CASE x.t = "undefined" -> FALSE
      [] x.t = "boolean" -> x.v
      [] x.t = "number" -> x.v # 0
      [] x.t = "string" -> x.v # ""
      [] x.t = "null" -> FALSE

\* An environment variable: unset, or set to a string. The numeric variables hold
\* their string as a sequence of characters: 0..9 are the digits, any other number a
\* character that is no digit.
Unset == [set |-> FALSE]
SetTo(s) == [set |-> TRUE, v |-> s]

EmptyMap == [k \in {} |-> Undef]

\* ---------------------------------------------------------------- bounds
MaxFolders == 2
MaxRequests == 2
MaxInstanceCalls == 2
MaxLoadCalls == 2
MaxSessions == 2
MaxCooks == 2

\* ---------------------------------------------------------------- schema
\* z.string().url(): the strings of the model that `new URL(s)` accepts
ValidUrls == {"http://localhost:9283", "http://env.example", "http://file.example"}

IsUrl(s) == s \in ValidUrls

\* /^\d+$/
IsDigits(s) == Len(s) > 0 /\ \A i \in 1..Len(s) : s[i] \in 0..9

RECURSIVE ParseInt(_)
\* parseInt(s, 10) of a string of digits
ParseInt(s) ==
    IF Len(s) = 0 THEN 0
    ELSE 10 * ParseInt(SubSeq(s, 1, Len(s) - 1)) + s[Len(s)]

EnvVars == {"GROCY_BASE_URL", "GROCY_API_KEY", "GROCY_ENABLE_SSL_VERIFY",
            "REST_RESPONSE_SIZE_LIMIT", "ENABLE_HTTP_SERVER", "HTTP_SERVER_PORT"}

\* EnvironmentSchema: does the variable's value pass its field's check?
EnvFieldOk(name, x) ==
    \/ ~x.set
    \/ CASE name = "GROCY_BASE_URL" -> IsUrl(x.v)
         [] name = "GROCY_API_KEY" -> TRUE
         [] name \in {"GROCY_ENABLE_SSL_VERIFY", "ENABLE_HTTP_SERVER"} -> x.v \in {"true", "false"}
         [] name \in {"REST_RESPONSE_SIZE_LIMIT", "HTTP_SERVER_PORT"} -> IsDigits(x.v)

\* The paths of the ZodError of EnvironmentSchema.parse(process.env)
EnvViolations(e) == {<<name>> : name \in {x \in EnvVars : ~EnvFieldOk(x, e[x])}}

DefaultPort == 8080
DefaultSizeLimit == 10000
MinPort == 1
MaxPort == 65535

\* YamlConfigSchema, leaf by leaf: the paths of the ZodError
YamlViolations(f) ==
    {p \in {<<"server", "enable_http_server">>} : f.server.enable_http_server.t \notin {"undefined", "boolean"}}
    \cup {p \in {<<"server", "http_server_port">>} :
            /\ f.server.http_server_port.t # "undefined"
            /\ \/ f.server.http_server_port.t # "number"
               \/ f.server.http_server_port.v < MinPort
               \/ f.server.http_server_port.v > MaxPort}
    \cup {p \in {<<"grocy", "base_url">>} :
            /\ f.grocy.base_url.t # "undefined"
            /\ \/ f.grocy.base_url.t # "string"
               \/ ~IsUrl(f.grocy.base_url.v)}
    \cup {p \in {<<"grocy", "api_key">>} : f.grocy.api_key.t \notin {"undefined", "string"}}
    \cup {p \in {<<"grocy", "enable_ssl_verify">>} : f.grocy.enable_ssl_verify.t \notin {"undefined", "boolean"}}
    \cup {p \in {<<"grocy", "response_size_limit">>} :
            /\ f.grocy.response_size_limit.t # "undefined"
            /\ \/ f.grocy.response_size_limit.t # "number"
               \/ f.grocy.response_size_limit.v <= 0}
    \cup {<<"tools", n, "enabled">> : n \in
            {m \in DOMAIN f.tools : f.tools[m].enabled.t \notin {"undefined", "boolean"}}}
    \cup {<<"tools", n, "ack_token">> : n \in
            {m \in DOMAIN f.tools : f.tools[m].ack_token.t \notin {"undefined", "string"}}}

\* .default(d)
OrDefault(x, d) == IF x.t = "undefined" THEN d ELSE x

\* The value YamlConfigSchema.parse returns for a file that passes it
YamlParsed(f) ==
    [server |-> [enable_http_server |-> OrDefault(f.server.enable_http_server, B(FALSE)),
                 http_server_port |-> OrDefault(f.server.http_server_port, N(DefaultPort))],
     grocy |-> [base_url |-> OrDefault(f.grocy.base_url, S("http://localhost:9283")),
                api_key |-> f.grocy.api_key,
                enable_ssl_verify |-> OrDefault(f.grocy.enable_ssl_verify, B(TRUE)),
                response_size_limit |-> OrDefault(f.grocy.response_size_limit, N(DefaultSizeLimit))],
     tools |-> [n \in DOMAIN f.tools |->
                  [enabled |-> OrDefault(f.tools[n].enabled, B(FALSE)),
                   ack_token |-> f.tools[n].ack_token,
                   extra |-> f.tools[n].extra]]]

\* `if (env.X)`: the variable is set and its string is not empty
EnvTruthy(x) == x.set /\ x.v # ""

\* `if (env.X !== undefined)`
EnvDefined(x) == x.set

\* Mutant: the overrides are not applied
ApplyNoOverrides(yaml, e) == yaml

\* ConfigManager.applyEnvironmentOverrides
ApplyEnvironmentOverrides(yaml, e) ==
    [server |-> [enable_http_server |->
                    IF EnvDefined(e["ENABLE_HTTP_SERVER"])
                    THEN B(e["ENABLE_HTTP_SERVER"].v = "true")
                    ELSE yaml.server.enable_http_server,
                 http_server_port |->
                    IF EnvDefined(e["HTTP_SERVER_PORT"])
                    THEN N(ParseInt(e["HTTP_SERVER_PORT"].v))
                    ELSE yaml.server.http_server_port],
     grocy |-> [base_url |->
                    IF EnvTruthy(e["GROCY_BASE_URL"])
                    THEN S(e["GROCY_BASE_URL"].v)
                    ELSE yaml.grocy.base_url,
                api_key |->
                    IF EnvTruthy(e["GROCY_API_KEY"])
                    THEN S(e["GROCY_API_KEY"].v)
                    ELSE yaml.grocy.api_key,
                enable_ssl_verify |->
                    IF EnvDefined(e["GROCY_ENABLE_SSL_VERIFY"])
                    THEN B(e["GROCY_ENABLE_SSL_VERIFY"].v = "true")
                    ELSE yaml.grocy.enable_ssl_verify,
                response_size_limit |->
                    IF EnvDefined(e["REST_RESPONSE_SIZE_LIMIT"])
                    THEN N(ParseInt(e["REST_RESPONSE_SIZE_LIMIT"].v))
                    ELSE yaml.grocy.response_size_limit],
     tools |-> yaml.tools]

\* The content of a file that is missing, or present and empty: configData = {}
NoLeaves ==
    [server |-> [enable_http_server |-> Undef, http_server_port |-> Undef],
     grocy |-> [base_url |-> Undef, api_key |-> Undef, enable_ssl_verify |-> Undef,
                response_size_limit |-> Undef],
     tools |-> EmptyMap]

\* loadYamlConfig's configData: `existsSync ? (YAML.parse(content) || {}) : {}`
ConfigData(f) == IF f.kind = "object" THEN f.data ELSE NoLeaves

\* Mutant: the schema accepts every file
FileViolationsNone(f) == {}

\* The ZodError paths of YamlConfigSchema.parse(configData): content that is no mapping
\* (a scalar, a list) fails at the root
FileViolations(f) ==
    IF f.kind = "scalar" THEN {<<>>} ELSE YamlViolations(IF f.kind = "object" THEN f.data ELSE NoLeaves)

NoConfig == [made |-> FALSE]

Running == [state |-> "running", code |-> 0]
Exited(c) == [state |-> "exited", code |-> c]

\* Mutant: getInstance never finds an instance
InstanceMissingAlways(c) == TRUE

\* `if (!ConfigManager.instance)`
InstanceMissing(c) == ~c.made

\* ConfigManager.getInstance() on first use: the constructor runs loadConfig, that is
\* loadEnvironment, loadYamlConfig and applyEnvironmentOverrides; a ZodError of either
\* schema logs every violation and exits with code 1.
GetInstance ==
    /\ pc = "boot"
    /\ proc.state = "running"
    /\ InstanceMissing(config)
    /\ IF EnvViolations(env) # {}
       THEN /\ proc' = Exited(1)
            /\ log' = log \o <<[level |-> "error", msg |-> "Invalid environment variables",
                                paths |-> EnvViolations(env)]>>
            /\ pc' = "exited"
            /\ UNCHANGED config
       ELSE IF FileViolations(file) # {}
       THEN /\ proc' = Exited(1)
            /\ log' = log \o <<[level |-> "error", msg |-> "Invalid YAML configuration",
                                paths |-> FileViolations(file)]>>
            /\ pc' = "exited"
            /\ UNCHANGED config
       ELSE /\ config' = [made |-> TRUE,
                          id |-> instanceCalls.loadConfig + 1,
                          yaml |-> ApplyEnvironmentOverrides(YamlParsed(ConfigData(file)), env)]
            /\ pc' = "configured"
            /\ UNCHANGED <<proc, log>>
    /\ instanceCalls' = [loadConfig |-> instanceCalls.loadConfig + 1,
                         returned |-> IF config'.made THEN Append(instanceCalls.returned, config')
                                      ELSE instanceCalls.returned]
    /\ UNCHANGED <<execution, http, cooking, env, file, validation, parsedTools, callers, importCount,
                   folderContent, readdirOk, discoveredFolders, moduleCache,
                   loadCall, toolModules, registry, enabledTools, toolSubConfigs, server,
                   last, nReq>>

\* A later caller's ConfigManager.getInstance(): the instance made at import is returned;
\* were there none, the constructor would run loadConfig again
GetInstanceCall ==
    /\ pc # "boot"
    /\ proc.state = "running"
    /\ Len(instanceCalls.returned) <= MaxInstanceCalls
    /\ IF InstanceMissing(config)
       THEN /\ EnvViolations(env) = {}
            /\ FileViolations(file) = {}
            /\ config' = [made |-> TRUE,
                          id |-> instanceCalls.loadConfig + 1,
                          yaml |-> ApplyEnvironmentOverrides(YamlParsed(ConfigData(file)), env)]
            /\ instanceCalls' = [loadConfig |-> instanceCalls.loadConfig + 1,
                                 returned |-> Append(instanceCalls.returned, config')]
       ELSE /\ instanceCalls' = [instanceCalls EXCEPT !.returned = Append(@, config)]
            /\ UNCHANGED config
    /\ UNCHANGED <<execution, http, cooking, env, file, proc, log, pc, folderContent, readdirOk, discoveredFolders,
                   moduleCache, loadCall, toolModules, registry, enabledTools, toolSubConfigs,
                   server, last, nReq, validation, parsedTools, callers, importCount>>

\* ---------------------------------------------------------------- tool modules
\* An absent property, and the property values of a module export
NoValue == [t |-> "undefined", map |-> EmptyMap]
NullValue == [t |-> "null", map |-> EmptyMap]
ObjectValue(m) == [t |-> "object", map |-> m]

\* A definition object; src names the module object that holds it
Definition(src, name) == [name |-> name, src |-> src]

\* A handler function; src names the module object that holds it
HandlerFn(src, key) == [t |-> "function", src |-> src, key |-> key]

\* An exported object { definitions, handlers, validators }
ModuleExport(src, names, handlers, validators) ==
    [obj |-> TRUE,
     src |-> src,
     definitions |-> [isArray |-> TRUE, items |-> [i \in 1..Len(names) |-> Definition(src, names[i])]],
     handlers |-> handlers,
     validators |-> validators]

\* `export * from './definitions.js'`: the exported definitions array itself
DefinitionsArrayExport(src) ==
    [obj |-> TRUE,
     src |-> src,
     definitions |-> [isArray |-> FALSE, items |-> <<>>],
     handlers |-> NoValue,
     validators |-> NoValue]

\* An export that is no object: a string, a number, a function, null
PrimitiveExport == [obj |-> FALSE]

\* { key: handlers.method, ... }
HandlerMap(src, keys) == ObjectValue([k \in keys |-> HandlerFn(src, k)])

ImportThrows == [throws |-> TRUE, exports |-> <<>>]
ImportGives(exports) == [throws |-> FALSE, exports |-> exports]

\* ModuleLoader.isToolModule; typeof null is 'object'
IsToolModule(x) ==
    /\ x.obj
    /\ x.definitions.isArray
    /\ x.handlers.t \in {"object", "null"}
    /\ Len(x.definitions.items) > 0

NoModule == [obj |-> FALSE]

\* loadModule's loop over Object.entries(moduleIndex): the first export with the module shape
FindToolModule(exports) ==
    IF \E i \in 1..Len(exports) : IsToolModule(exports[i])
    THEN LET i == CHOOSE j \in 1..Len(exports) :
                     /\ IsToolModule(exports[j])
                     /\ \A k \in 1..(j - 1) : ~IsToolModule(exports[k])
         IN [loaded |-> TRUE, toolModule |-> exports[i], error |-> FALSE]
    ELSE [loaded |-> FALSE, toolModule |-> NoModule, error |-> FALSE]

\* loadModule after the cache miss: try { import; find } catch { error }
LoadedModuleInfo(content) ==
    IF content.throws
    THEN [loaded |-> FALSE, toolModule |-> NoModule, error |-> TRUE]
    ELSE FindToolModule(content.exports)

Null == [t |-> "null"]

\* loadModule's return value: `moduleInfo.loaded ? moduleInfo : null`
LoadModuleValue(info) == IF info.loaded THEN [t |-> "object", info |-> info] ELSE Null

Fulfilled(v) == [status |-> "fulfilled", value |-> v]

RECURSIVE CollectModulesUntilFailure(_, _)
\* Mutant: the first folder that did not load ends the collection
CollectModulesUntilFailure(folders, results) ==
    IF folders = <<>> THEN <<>>
    ELSE LET r == results[Head(folders)]
         IN IF r.status = "fulfilled" /\ r.value.t = "object"
            THEN <<r.value.info.toolModule>> \o CollectModulesUntilFailure(Tail(folders), results)
            ELSE <<>>

\* Mutant: when a load settled ahead of an earlier folder's, the bundles are collected
\* in the order the loads settled
CollectModulesAsSettled(folders, results) ==
    LET loaded == SelectSeq(folders, LAMBDA f : results[f].status = "fulfilled"
                                                  /\ results[f].value.t = "object")
        n == Len(loaded)
        asSettled == \E c \in 1..Len(callers) :
                        /\ callers[c].folders = folders
                        /\ callers[c].results = results
                        /\ callers[c].outOfOrder
    IN [i \in 1..n |-> results[loaded[IF asSettled THEN n + 1 - i ELSE i]].value.info.toolModule]

RECURSIVE CollectModules(_, _)
\* loadAllModules' results.forEach: the toolModule of every fulfilled, non-null result
CollectModules(folders, results) ==
    IF folders = <<>> THEN <<>>
    ELSE LET r == results[Head(folders)]
             rest == CollectModules(Tail(folders), results)
         IN IF r.status = "fulfilled" /\ r.value.t = "object"
            THEN <<r.value.info.toolModule>> \o rest
            ELSE rest

\* Object.assign(target, source): a null or undefined source is skipped
ObjectAssign(target, source) ==
    IF source.t = "object" THEN source.map @@ target ELSE target

RECURSIVE RegistryOf(_)
\* createToolRegistry's loop over toolModules
RegistryOf(modules) ==
    IF modules = <<>>
    THEN [built |-> TRUE, definitions |-> <<>>, handlers |-> EmptyMap, validators |-> EmptyMap]
    ELSE LET n == Len(modules)
             acc == RegistryOf(SubSeq(modules, 1, n - 1))
             m == modules[n]
         IN [built |-> TRUE,
             definitions |-> acc.definitions \o m.definitions.items,
             handlers |-> ObjectAssign(acc.handlers, m.handlers),
             validators |-> IF m.validators.t = "object"
                            THEN ObjectAssign(acc.validators, m.validators)
                            ELSE acc.validators]

NoRegistry == [built |-> FALSE, definitions |-> <<>>, handlers |-> EmptyMap, validators |-> EmptyMap]

\* Properties every plain object inherits from Object.prototype
ObjectPrototypeKeys == {"toString", "constructor"}

\* handlers[name] on the plain object `handlers`
PropertyOf(map, name) ==
    IF name \in DOMAIN map THEN map[name]
    ELSE IF name \in ObjectPrototypeKeys THEN HandlerFn("Object.prototype", name)
    ELSE Undef

\* registry.getDefinitions()
GetDefinitions == registry.definitions

\* registry.getHandler(name)
GetHandler(name) == PropertyOf(registry.handlers, name)

\* registry.getValidator(name)
GetValidator(name) == PropertyOf(registry.validators, name)

\* registry.getToolNames()
GetToolNames == [i \in 1..Len(registry.definitions) |-> registry.definitions[i].name]

Range(s) == {s[i] : i \in 1..Len(s)}

\* household/definitions.ts: the names of the exported definitions, in order
HouseholdDefinitions ==
    <<"household_chores_get", "household_chores_execute", "household_tasks_get",
      "household_tasks_complete", "household_batteries_get",
      "household_batteries_charge", "household_equipment_get",
      "household_actions_undo">>

\* household/index.js: the keys of the module's handlers
HouseholdHandlerKeys ==
    {"household_chores_get", "household_chores_execute", "household_tasks_get",
     "household_tasks_complete", "household_batteries_get",
     "household_batteries_charge", "household_equipment_get",
     "household_actions_undo"}

\* inventory/definitions.ts: the names of the exported definitions, in order
InventoryDefinitions ==
    <<"inventory_products_get", "inventory_products_get_groups",
      "inventory_products_get_price_history", "inventory_stock_get_all",
      "inventory_stock_get_by_product", "inventory_stock_get_volatile",
      "inventory_stock_get_by_location", "inventory_transactions_purchase",
      "inventory_transactions_consume", "inventory_transactions_transfer",
      "inventory_transactions_adjust", "inventory_transactions_open",
      "inventory_products_lookup", "inventory_products_print_label",
      "inventory_stock_entry_print_label", "inventory_stock_entry_consume",
      "inventory_stock_entry_transfer", "inventory_stock_entry_open">>

\* inventory/index.js: the keys of the module's handlers
InventoryHandlerKeys ==
    {"inventory_products_get", "inventory_products_get_groups",
     "inventory_products_get_price_history", "inventory_stock_get_all",
     "inventory_stock_get_by_product", "inventory_stock_get_volatile",
     "inventory_stock_get_by_location", "inventory_transactions_purchase",
     "inventory_transactions_consume", "inventory_transactions_transfer",
     "inventory_transactions_adjust", "inventory_transactions_open",
     "inventory_products_lookup", "inventory_stock_print_label"}

\* recipes/definitions.ts: the names of the exported definitions, in order
RecipesDefinitions ==
    <<"recipes_management_get", "recipes_management_get_by_id",
      "recipes_management_create", "recipes_fulfillment_get",
      "recipes_fulfillment_get_all", "recipes_mealplan_get",
      "recipes_mealplan_get_sections", "recipes_mealplan_add_recipe",
      "recipes_mealplan_delete_entry", "recipes_cooking_consume",
      "recipes_shopping_add_all_products", "recipes_shopping_add_missing_products",
      "recipes_cooking_cooked_something">>

\* recipes/index.js: the keys of the module's handlers
RecipesHandlerKeys ==
    {"recipes_management_get", "recipes_management_get_by_id",
     "recipes_management_create", "recipes_fulfillment_get",
     "recipes_fulfillment_get_all", "recipes_mealplan_get",
     "recipes_mealplan_get_sections", "recipes_mealplan_add_recipe",
     "recipes_mealplan_delete_entry", "recipes_cooking_consume",
     "recipes_cooking_cooked_something", "recipes_shopping_add_all_products",
     "recipes_shopping_add_missing_products"}

\* shopping/definitions.ts: the names of the exported definitions, in order
ShoppingDefinitions ==
    <<"shopping_list_get", "shopping_list_add_item", "shopping_list_remove_item",
      "shopping_locations_get", "shopping_list_print_thermal">>

\* shopping/index.js: the keys of the module's handlers
ShoppingHandlerKeys ==
    {"shopping_list_get", "shopping_list_add_item", "shopping_list_remove_item",
     "shopping_locations_get"}

\* system/definitions.ts: the names of the exported definitions, in order
SystemDefinitions ==
    <<"system_locations_get", "system_units_get", "system_users_get",
      "system_dev_call_api", "system_dev_test_request">>

\* system/index.js: the keys of the module's handlers
SystemHandlerKeys ==
    {"system_locations_get", "system_units_get", "system_users_get",
     "system_dev_call_api", "system_dev_test_request"}

\* The registry's names in the order of Array.prototype.sort (UTF-16 code units)
NameOrder ==
    <<"a", "b", "household_actions_undo", "household_batteries_charge",
      "household_batteries_get", "household_chores_execute", "household_chores_get",
      "household_equipment_get", "household_tasks_complete", "household_tasks_get",
      "inventory_products_get", "inventory_products_get_groups",
      "inventory_products_get_price_history", "inventory_products_lookup",
      "inventory_products_print_label", "inventory_stock_entry_consume",
      "inventory_stock_entry_open", "inventory_stock_entry_print_label",
      "inventory_stock_entry_transfer", "inventory_stock_get_all",
      "inventory_stock_get_by_location", "inventory_stock_get_by_product",
      "inventory_stock_get_volatile", "inventory_stock_print_label",
      "inventory_transactions_adjust", "inventory_transactions_consume",
      "inventory_transactions_open", "inventory_transactions_purchase",
      "inventory_transactions_transfer", "recipes_cooking_consume",
      "recipes_cooking_cooked_something", "recipes_fulfillment_get",
      "recipes_fulfillment_get_all", "recipes_management_create",
      "recipes_management_get", "recipes_management_get_by_id",
      "recipes_mealplan_add_recipe", "recipes_mealplan_delete_entry",
      "recipes_mealplan_get", "recipes_mealplan_get_sections",
      "recipes_shopping_add_all_products", "recipes_shopping_add_missing_products",
      "shopping_list_add_item", "shopping_list_get", "shopping_list_print_thermal",
      "shopping_list_remove_item", "shopping_locations_get", "system_dev_call_api",
      "system_dev_test_request", "system_locations_get", "system_units_get",
      "system_users_get">>

\* The folder names readdirSync may list
FolderNames == <<"f1", "f2", "f3", "f4">>

\* ModuleLoader.discoverFolders: the cached list, else the directories, else [] on error
DiscoverFolders ==
    IF discoveredFolders.cached THEN discoveredFolders.list
    ELSE IF readdirOk
    THEN SelectSeq(FolderNames \o <<"household", "inventory", "recipes", "shopping", "system">>,
                   LAMBDA f : f \in DOMAIN folderContent)
    ELSE <<>>

\* Mutant: loadModule never finds the folder in the cache
CachedNever(f) == FALSE

\* loadModule: `const cached = this.moduleCache.get(folderName); if (cached)`
Cached(f) == f \in DOMAIN moduleCache

NoLoadCall == [folders |-> <<>>, pending |-> {}, results |-> EmptyMap]

\* create() -> createToolRegistry() -> ModuleLoader.loadAllModules(): discoverFolders,
\* then loadModule for every folder up to its `await import(...)`; a cached folder
\* settles at once.
LoadAllModules ==
    /\ pc = "configured"
    /\ proc.state = "running"
    /\ LET folders == DiscoverFolders
           cachedFolders == {f \in Range(folders) : Cached(f)}
       IN /\ discoveredFolders' = [cached |-> TRUE, list |-> folders]
          /\ loadCall' = [folders |-> folders,
                          pending |-> Range(folders) \ cachedFolders,
                          results |-> [f \in cachedFolders |->
                                         Fulfilled(LoadModuleValue(moduleCache[f]))]]
    /\ pc' = "loading"
    /\ importCount' = [f \in DOMAIN importCount |->
                          IF f \in Range(DiscoverFolders) /\ ~Cached(f)
                          THEN importCount[f] + 1 ELSE importCount[f]]
    /\ UNCHANGED <<execution, http, cooking, env, file, validation, parsedTools, instanceCalls, callers,
                   config, proc, log, folderContent, readdirOk, moduleCache,
                   toolModules, registry, enabledTools, toolSubConfigs, server, last, nReq>>

\* One pending import settles and loadModule runs to its end: the outcome is cached
ImportSettles ==
    /\ pc = "loading"
    /\ \E f \in loadCall.pending :
         LET info == LoadedModuleInfo(folderContent[f])
         IN /\ moduleCache' = (f :> info) @@ moduleCache
            /\ loadCall' = [loadCall EXCEPT !.pending = @ \ {f},
                                            !.results = (f :> Fulfilled(LoadModuleValue(info))) @@ @]
    /\ UNCHANGED <<execution, http, cooking, env, file, validation, parsedTools, instanceCalls, callers, importCount,
                   config, proc, log, pc, folderContent, readdirOk,
                   discoveredFolders, toolModules, registry, enabledTools, toolSubConfigs,
                   server, last, nReq>>

\* Promise.allSettled resolves: loadAllModules returns and createToolRegistry builds
\* the registry
CreateToolRegistry ==
    /\ pc = "loading"
    /\ loadCall.pending = {}
    /\ toolModules' = CollectModules(loadCall.folders, loadCall.results)
    /\ registry' = RegistryOf(toolModules')
    /\ pc' = "registry"
    /\ UNCHANGED <<execution, http, cooking, env, file, validation, parsedTools, instanceCalls, callers, importCount,
                   config, proc, log, folderContent, readdirOk, discoveredFolders,
                   moduleCache, loadCall, enabledTools, toolSubConfigs, server, last, nReq>>

\* The load of folder f settles while the load of a folder listed before it is pending
SettlesEarly(call, f) ==
    \E i \in 1..Len(call.folders), j \in 1..Len(call.folders) :
        /\ i < j
        /\ call.folders[i] \in call.pending
        /\ call.folders[j] = f

\* Any caller's ModuleLoader.loadAllModules(): discoverFolders, then loadModule for every
\* folder up to its `await import(...)`; a cached folder settles at once. The call
\* remembers whether an earlier call was still running when it began, and whether one of
\* its loads settles before the load of a folder listed earlier.
CallLoadAllModules ==
    /\ proc.state = "running"
    /\ Len(callers) < MaxLoadCalls
    /\ LET folders == DiscoverFolders
           cachedFolders == {f \in Range(folders) : Cached(f)}
       IN /\ discoveredFolders' = [cached |-> TRUE, list |-> folders]
          /\ callers' = Append(callers,
                               [folders |-> folders,
                                pending |-> Range(folders) \ cachedFolders,
                                results |-> [f \in cachedFolders |->
                                               Fulfilled(LoadModuleValue(moduleCache[f]))],
                                overlapped |-> \E c \in 1..Len(callers) : ~callers[c].returned,
                                outOfOrder |-> FALSE,
                                returned |-> FALSE,
                                toolModules |-> <<>>])
          /\ importCount' = [f \in DOMAIN importCount |->
                               IF f \in Range(folders) \ cachedFolders
                               THEN importCount[f] + 1 ELSE importCount[f]]
    /\ UNCHANGED <<execution, http, cooking, env, file, config, proc, log, pc, folderContent, readdirOk, moduleCache,
                   loadCall, toolModules, registry, enabledTools, toolSubConfigs, server,
                   last, nReq, validation, parsedTools, instanceCalls>>

\* One pending import of one call settles and its loadModule runs to the end: the outcome
\* is written to the cache
CallerImportSettles ==
    /\ \E c \in 1..Len(callers) : \E f \in callers[c].pending :
         LET info == LoadedModuleInfo(folderContent[f])
         IN /\ moduleCache' = (f :> info) @@ moduleCache
            /\ callers' = [callers EXCEPT ![c].pending = @ \ {f},
                                          ![c].outOfOrder = @ \/ SettlesEarly(callers[c], f),
                                          ![c].results = (f :> Fulfilled(LoadModuleValue(info))) @@ @]
    /\ UNCHANGED <<execution, http, cooking, env, file, config, proc, log, pc, folderContent, readdirOk,
                   discoveredFolders, loadCall, toolModules, registry, enabledTools,
                   toolSubConfigs, server, last, nReq, validation, parsedTools,
                   instanceCalls, importCount>>

\* Promise.allSettled of one call resolves and loadAllModules returns its toolModules
LoadAllModulesReturns ==
    /\ \E c \in 1..Len(callers) :
         /\ ~callers[c].returned
         /\ callers[c].pending = {}
         /\ callers' = [callers EXCEPT ![c].returned = TRUE,
                                       ![c].toolModules =
                                           CollectModules(callers[c].folders, callers[c].results)]
    /\ UNCHANGED <<execution, http, cooking, env, file, config, proc, log, pc, folderContent, readdirOk,
                   discoveredFolders, moduleCache, loadCall, toolModules, registry,
                   enabledTools, toolSubConfigs, server, last, nReq, validation, parsedTools,
                   instanceCalls, importCount>>

\* ---------------------------------------------------------------- tool configuration
\* Object.entries(toolConfig) of a parsed tool entry: enabled, ack_token when given,
\* and the catch-all keys
ToolConfigEntries(cfg) ==
    cfg.extra
    @@ ("enabled" :> cfg.enabled)
    @@ (IF cfg.ack_token.t = "undefined" THEN EmptyMap ELSE ("ack_token" :> cfg.ack_token))

StandardFields == {"enabled", "ack_token"}

\* Mutant: the standard fields are not left out
SubConfigsOfAll(cfg) == ToolConfigEntries(cfg)

\* The inner loop of parseToolConfiguration: everything except the standard fields
SubConfigsOf(cfg) ==
    LET entries == ToolConfigEntries(cfg)
    IN [k \in {x \in DOMAIN entries : x \notin StandardFields} |-> entries[k]]

\* `toolConfig.ack_token && typeof toolConfig.ack_token === 'string'`
HasAckToken(cfg) == Truthy(cfg.ack_token) /\ cfg.ack_token.t = "string"

\* Mutant: every configured name counts as enabled
ParseToolConfigurationAllNames(yaml) ==
    [enabledTools |-> DOMAIN yaml.tools,
     toolSubConfigs |-> [n \in {m \in DOMAIN yaml.tools : DOMAIN SubConfigsOf(yaml.tools[m]) # {}} |->
                           SubConfigsOf(yaml.tools[n])],
     toolAckTokens |-> [n \in {m \in DOMAIN yaml.tools : HasAckToken(yaml.tools[m])} |->
                          yaml.tools[n].ack_token.v]]

\* ConfigManager.parseToolConfiguration
ParseToolConfiguration(yaml) ==
    LET enabled == {n \in DOMAIN yaml.tools : Truthy(yaml.tools[n].enabled)}
    IN [enabledTools |-> enabled,
        toolSubConfigs |-> [n \in {m \in enabled : DOMAIN SubConfigsOf(yaml.tools[m]) # {}} |->
                              SubConfigsOf(yaml.tools[n])],
        toolAckTokens |-> [n \in {m \in enabled : HasAckToken(yaml.tools[m])} |->
                             yaml.tools[n].ack_token.v]]

\* YamlConfigManager's ConfigSchema: the same leaves without grocy.api_key, which it strips
ConfigSchemaViolations(f) == FileViolations(f) \ {<<"grocy", "api_key">>}

\* YamlConfigManager.getEnabledTools
GetEnabledTools(tools) == {n \in DOMAIN tools : Truthy(tools[n].enabled)}

CommonKeys == {"enabled", "ack_token"}

\* YamlConfigManager.parseToolConfiguration, one tool: the token when it is truthy, and
\* every key that is no common key
YamlSubConfigsOf(cfg) ==
    LET entries == ToolConfigEntries(cfg)
        specific == [k \in {x \in DOMAIN entries : x \notin CommonKeys} |-> entries[k]]
    IN IF Truthy(cfg.ack_token) THEN specific @@ ("ack_token" :> cfg.ack_token) ELSE specific

\* YamlConfigManager.parseToolConfiguration
YamlParseToolConfiguration(tools) ==
    [enabledTools |-> GetEnabledTools(tools),
     toolSubConfigs |-> [n \in {m \in DOMAIN tools : DOMAIN YamlSubConfigsOf(tools[m]) # {}} |->
                           YamlSubConfigsOf(tools[n])]]

\* No caller has asked for the parsed tool configuration
NotParsed == [by |-> "none", enabledTools |-> {}, toolSubConfigs |-> EmptyMap]

\* A caller asks the configuration manager the server uses: config.parseToolConfiguration()
ParseToolConfigurationCall ==
    /\ config.made
    /\ proc.state = "running"
    /\ parsedTools.by = "none"
    /\ parsedTools' = [by |-> "ConfigManager",
                       enabledTools |-> ParseToolConfiguration(config.yaml).enabledTools,
                       toolSubConfigs |-> ParseToolConfiguration(config.yaml).toolSubConfigs]
    /\ UNCHANGED <<execution, http, cooking, env, file, config, proc, log, pc, folderContent, readdirOk,
                   discoveredFolders, moduleCache, loadCall, toolModules, registry,
                   enabledTools, toolSubConfigs, server, last, nReq, validation,
                   instanceCalls, callers, importCount>>

\* A caller asks the YAML-only manager of config/environment.ts:
\* yamlConfig.parseToolConfiguration(), on a file its ConfigSchema accepted
YamlParseToolConfigurationCall ==
    /\ proc.state = "running"
    /\ parsedTools.by = "none"
    /\ ConfigSchemaViolations(file) = {}
    /\ LET result == YamlParseToolConfiguration(YamlParsed(ConfigData(file)).tools)
       IN parsedTools' = [by |-> "YamlConfigManager",
                          enabledTools |-> result.enabledTools,
                          toolSubConfigs |-> result.toolSubConfigs]
    /\ UNCHANGED <<execution, http, cooking, env, file, config, proc, log, pc, folderContent, readdirOk,
                   discoveredFolders, moduleCache, loadCall, toolModules, registry,
                   enabledTools, toolSubConfigs, server, last, nReq, validation,
                   instanceCalls, callers, importCount>>

\* Array.from(validToolNames).sort()
SortNames(names) == SelectSeq(NameOrder, LAMBDA n : n \in names)

\* Mutant: the validation of the enabled names finds nothing
InvalidToolsNone(enabled, valid) == {}

\* `Array.from(enabledTools).filter(tool => !validToolNames.has(tool))`
InvalidTools(enabled, valid) == {t \in enabled : t \notin valid}

\* ---------------------------------------------------------------- validators
\* A Map<string, any> in insertion order: a sequence of <<key, value>> entries
MapKeys(entries) == {entries[i][1] : i \in 1..Len(entries)}

\* Map.prototype.get
MapGet(entries, key) ==
    IF key \in MapKeys(entries)
    THEN entries[CHOOSE i \in 1..Len(entries) : entries[i][1] = key][2]
    ELSE Undef

\* The entries of a Map built from an object with the keys of `order` that it has
EntriesOf(map, order) ==
    LET keys == SelectSeq(order, LAMBDA k : k \in DOMAIN map)
    IN [i \in 1..Len(keys) |-> <<keys[i], map[keys[i]]>>]

\* How a validator call ends: it returns, or throws an Error
Passes == [threw |-> FALSE]
Throws(error) == [threw |-> TRUE, error |-> error]

\* ValidationHelpers.validateBoolean
ValidateBoolean(value, fieldName) ==
    IF value.t # "undefined" /\ value.t # "boolean"
    THEN Throws([kind |-> "must be a boolean", field |-> fieldName])
    ELSE Passes

\* Mutant: no key is unknown
ValidateKnownOptionsNone(subConfigs, knownOptions, toolName) == Passes

\* ValidationHelpers.validateKnownOptions: the first key that is not known throws
ValidateKnownOptions(subConfigs, knownOptions, toolName) ==
    LET unknown == {i \in 1..Len(subConfigs) : subConfigs[i][1] \notin Range(knownOptions)}
    IN IF unknown = {} THEN Passes
       ELSE LET first == CHOOSE i \in unknown : \A j \in unknown : i <= j
            IN Throws([kind |-> "Unknown sub-configuration option",
                       key |-> subConfigs[first][1],
                       tool |-> toolName,
                       validOptions |-> SelectSeq(knownOptions, LAMBDA k : k # "ack_token")])

\* validateCompleteSubConfigs: `new Set([...])` of the known options
KnownOptions ==
    <<"allow_meal_plan_entry_already_done", "allow_no_meal_plan", "print_labels", "ack_token">>

\* validateCompleteSubConfigs
ValidateCompleteSubConfigs(subConfigs) ==
    LET allowMealPlanEntryAlreadyDone == MapGet(subConfigs, "allow_meal_plan_entry_already_done")
        allowNoMealPlan == MapGet(subConfigs, "allow_no_meal_plan")
        printLabels == MapGet(subConfigs, "print_labels")
        first == ValidateBoolean(allowMealPlanEntryAlreadyDone, "allow_meal_plan_entry_already_done")
        second == ValidateBoolean(allowNoMealPlan, "allow_no_meal_plan")
        third == ValidateBoolean(printLabels, "print_labels")
    IN IF first.threw THEN first
       ELSE IF second.threw THEN second
       ELSE IF third.threw THEN third
       ELSE IF Truthy(allowNoMealPlan) /\ Truthy(allowMealPlanEntryAlreadyDone)
       THEN Throws([kind |-> "mutually exclusive modes"])
       ELSE ValidateKnownOptions(subConfigs, KnownOptions, "complete")

NoValidation == [state |-> "none", subConfigs |-> <<>>, outcome |-> Passes]

\* A caller runs the validator on a Map
RunValidator ==
    /\ validation.state = "input"
    /\ validation' = [validation EXCEPT !.state = "done",
                                        !.outcome = ValidateCompleteSubConfigs(validation.subConfigs)]
    /\ UNCHANGED <<execution, http, cooking, env, file, config, proc, log, pc, folderContent, readdirOk,
                   discoveredFolders, moduleCache, loadCall, toolModules, registry,
                   enabledTools, toolSubConfigs, server, last, nReq, parsedTools, instanceCalls,
                   callers, importCount>>

\* ---------------------------------------------------------------- the server
NoServer == [handlers |-> FALSE, stdio |-> FALSE, http |-> FALSE]

\* Mutant: the handlers are registered before the enabled names are validated
ConstructHandlersFirst ==
    /\ pc = "registry"
    /\ proc.state = "running"
    /\ LET parsed == ParseToolConfiguration(config.yaml)
           validToolNames == Range(GetToolNames)
           invalid == InvalidTools(parsed.enabledTools, validToolNames)
       IN /\ toolSubConfigs' = parsed.toolSubConfigs
          /\ server' = [server EXCEPT !.handlers = TRUE]
          /\ IF parsed.enabledTools # {} /\ invalid # {}
             THEN /\ log' = log \o <<[level |-> "error", msg |-> "Invalid tools",
                                      invalid |-> invalid,
                                      valid |-> SortNames(validToolNames)]>>
                  /\ proc' = Exited(1)
                  /\ pc' = "exited"
                  /\ UNCHANGED enabledTools
             ELSE /\ enabledTools' = parsed.enabledTools
                  /\ log' = IF parsed.enabledTools = {}
                            THEN log \o <<[level |-> "warn", msg |-> "No tools enabled"]>>
                            ELSE log
                  /\ pc' = "constructed"
                  /\ UNCHANGED proc
    /\ UNCHANGED <<execution, http, cooking, env, file, validation, parsedTools, instanceCalls, callers, importCount,
                   config, folderContent, readdirOk, discoveredFolders,
                   moduleCache, loadCall, toolModules, registry, last, nReq>>

\* new GrocyMcpServer(...): parseToolConfiguration validates the enabled names against
\* the registry and exits on an unknown one; then setupHandlers registers the handlers
Construct ==
    /\ pc = "registry"
    /\ proc.state = "running"
    /\ LET parsed == ParseToolConfiguration(config.yaml)
           validToolNames == Range(GetToolNames)
           invalid == InvalidTools(parsed.enabledTools, validToolNames)
       IN /\ toolSubConfigs' = parsed.toolSubConfigs
          /\ IF parsed.enabledTools # {} /\ invalid # {}
             THEN /\ log' = log \o <<[level |-> "error", msg |-> "Invalid tools",
                                      invalid |-> invalid,
                                      valid |-> SortNames(validToolNames)]>>
                  /\ proc' = Exited(1)
                  /\ pc' = "exited"
                  /\ UNCHANGED <<enabledTools, server>>
             ELSE /\ enabledTools' = parsed.enabledTools
                  /\ log' = IF parsed.enabledTools = {}
                            THEN log \o <<[level |-> "warn", msg |-> "No tools enabled"]>>
                            ELSE log
                  /\ server' = [server EXCEPT !.handlers = TRUE]
                  /\ pc' = "constructed"
                  /\ UNCHANGED proc
    /\ UNCHANGED <<execution, http, cooking, env, file, validation, parsedTools, instanceCalls, callers, importCount,
                   config, folderContent, readdirOk, discoveredFolders,
                   moduleCache, loadCall, toolModules, registry, last, nReq>>

\* GrocyMcpServer.start: connect the stdio transport, then start the HTTP server when
\* it is enabled; a failure to start it exits with code 1
Start ==
    /\ pc = "constructed"
    /\ proc.state = "running"
    /\ \E httpStarts \in BOOLEAN :
         IF config.yaml.server.enable_http_server.v
         THEN IF httpStarts
              THEN /\ server' = [server EXCEPT !.stdio = TRUE, !.http = TRUE]
                   /\ pc' = "serving"
                   /\ UNCHANGED <<proc, log>>
              ELSE /\ server' = [server EXCEPT !.stdio = TRUE]
                   /\ log' = log \o <<[level |-> "error", msg |-> "Failed to start HTTP server"]>>
                   /\ proc' = Exited(1)
                   /\ pc' = "exited"
         ELSE /\ httpStarts
              /\ server' = [server EXCEPT !.stdio = TRUE]
              /\ pc' = "serving"
              /\ UNCHANGED <<proc, log>>
    /\ UNCHANGED <<execution, http, cooking, env, file, validation, parsedTools, instanceCalls, callers, importCount,
                   config, folderContent, readdirOk, discoveredFolders,
                   moduleCache, loadCall, toolModules, registry, enabledTools,
                   toolSubConfigs, last, nReq>>

\* Mutant: the enablement check lets every name through
ToolEnabledAlways(name) == TRUE

\* `this.enabledTools.has(name)`
ToolEnabled(name) == name \in enabledTools

\* The list-tools handler's filter
FilteredTools(allTools) == SelectSeq(allTools, LAMBDA tool : ToolEnabled(tool.name))

TextEntry(text) == [type |-> "text", text |-> text]

\* What a tool handler may do with a call: return a result, with or without the error
\* marker, or throw
HandlerOutcomes ==
    {[how |-> "returned", result |-> [content |-> c, isError |-> e]] :
        c \in {<<TextEntry(<<"x">>)>>, <<TextEntry(<<"x">>), TextEntry(<<"y">>)>>},
        e \in {Undef, B(FALSE), B(TRUE)}}
    \cup {[how |-> "threw"]}

NotCalled == [how |-> "none"]

McpError(code, msg) == [kind |-> "error", code |-> code, msg |-> msg]

\* Mutant: the token of the tool is appended to every result, error or not
CallToolResultAckAlways(toolName, result) ==
    [kind |-> "result",
     result |-> IF HasAckToken(config.yaml.tools[toolName])
                THEN [result EXCEPT !.content =
                        Append(@, TextEntry(<<"Acknowledgment token: ",
                                              config.yaml.tools[toolName].ack_token.v>>))]
                ELSE result]

\* `return result as CallToolResult`
CallToolResult(toolName, result) == [kind |-> "result", result |-> result]

\* `this.toolSubConfigs.get(toolName)`
SubConfigsFor(toolName) ==
    IF toolName \in DOMAIN toolSubConfigs
    THEN [t |-> "map", map |-> toolSubConfigs[toolName]]
    ELSE [t |-> "undefined", map |-> EmptyMap]

NoRequest ==
    [kind |-> "none", name |-> "", invoked |-> Undef, subConfigs |-> SubConfigsFor(""),
     outcome |-> NotCalled, response |-> [kind |-> "none"]]

\* The names a client may ask for
RequestNames == DOMAIN config.yaml.tools \cup Range(GetToolNames) \cup {"no_such_tool", "toString"}

\* Mutant: list-tools filters the registry's array in place
ListToolsInPlace ==
    /\ pc = "serving"
    /\ server.handlers /\ server.stdio
    /\ nReq < MaxRequests
    /\ nReq' = nReq + 1
    /\ registry' = [registry EXCEPT !.definitions = FilteredTools(GetDefinitions)]
    /\ last' = [NoRequest EXCEPT !.kind = "list",
                                 !.response = [kind |-> "tools",
                                               tools |-> FilteredTools(GetDefinitions)]]
    /\ UNCHANGED <<execution, http, cooking, env, file, validation, parsedTools, instanceCalls, callers,
                   importCount, config, proc, log, pc, folderContent, readdirOk,
                   discoveredFolders, moduleCache, loadCall, toolModules,
                   enabledTools, toolSubConfigs, server>>

\* The ListToolsRequestSchema handler
ListTools ==
    /\ pc = "serving"
    /\ server.handlers /\ server.stdio
    /\ nReq < MaxRequests
    /\ nReq' = nReq + 1
    /\ last' = [NoRequest EXCEPT !.kind = "list",
                                 !.response = [kind |-> "tools",
                                               tools |-> FilteredTools(GetDefinitions)]]
    /\ UNCHANGED <<execution, http, cooking, env, file, validation, parsedTools, instanceCalls, callers, importCount,
                   config, proc, log, pc, folderContent, readdirOk,
                   discoveredFolders, moduleCache, loadCall, toolModules, registry,
                   enabledTools, toolSubConfigs, server>>

\* The CallToolRequestSchema handler
CallTool ==
    /\ pc = "serving"
    /\ server.handlers /\ server.stdio
    /\ nReq < MaxRequests
    /\ nReq' = nReq + 1
    /\ \E toolName \in RequestNames, outcome \in HandlerOutcomes :
         LET handler == GetHandler(toolName)
             request == [NoRequest EXCEPT !.kind = "call", !.name = toolName]
         IN IF ~ToolEnabled(toolName)
            THEN last' = [request EXCEPT !.response =
                            McpError("InvalidRequest", <<"not enabled", toolName>>)]
            ELSE IF handler.t = "undefined"
            THEN last' = [request EXCEPT !.response =
                            McpError("MethodNotFound", <<"Unknown tool", toolName>>)]
            ELSE last' = [request EXCEPT
                            !.invoked = handler,
                            !.subConfigs = SubConfigsFor(toolName),
                            !.outcome = outcome,
                            !.response = IF outcome.how = "returned"
                                         THEN CallToolResult(toolName, outcome.result)
                                         ELSE McpError("InternalError",
                                                       <<"Tool execution failed", toolName>>)]
    /\ UNCHANGED <<execution, http, cooking, env, file, validation, parsedTools, instanceCalls, callers, importCount,
                   config, proc, log, pc, folderContent, readdirOk,
                   discoveredFolders, moduleCache, loadCall, toolModules, registry,
                   enabledTools, toolSubConfigs, server>>

\* ---------------------------------------------------------------- tool handlers
\* LogLevel
LogLevelError == 0
LogLevelWarn == 1

\* Logger.shouldLog
ShouldLog(lg, level, category) ==
    IF level > lg.logLevel THEN FALSE
    ELSE IF lg.enabledCategories.set THEN category \in lg.enabledCategories.names
    ELSE TRUE

\* A thrown value: the class it was constructed with (or "string" for a thrown string),
\* its message, and whether the data the logger prints for it holds a cycle: an own
\* property of the error, or the details of an AppError
ErrorValue(cls, message, circular) == [cls |-> cls, message |-> message, circular |-> circular]

\* The prototype chain of a thrown value. AppError's constructor ends with
\* Object.setPrototypeOf(this, AppError.prototype), so an instance of a subclass of
\* AppError has AppError.prototype as well.
PrototypeChain(cls) ==
    CASE cls = "Error" -> {"Error"}
      [] cls = "McpError" -> {"McpError", "Error"}
      [] cls \in {"AppError", "ApiError", "ValidationError", "ConfigError"} -> {"AppError", "Error"}
      [] cls = "string" -> {}

\* `error instanceof cls`
InstanceOf(error, cls) == cls \in PrototypeChain(error.cls)

\* ErrorHandler.logError: logger.warn for an AppError, logger.error otherwise; the
\* logger formats an entry it does not skip with JSON.stringify(entry.data), which
\* throws a TypeError on a cycle
LogErrorThrows(lg, error) ==
    /\ ShouldLog(lg, IF InstanceOf(error, "AppError") THEN LogLevelWarn ELSE LogLevelError, "ERROR")
    /\ error.circular

\* BaseToolHandler.createError(message), without details
CreateError(message) == [content |-> <<TextEntry(<<"Error: ">> \o message)>>, isError |-> B(TRUE)]

Resolves(value) == [settled |-> "fulfilled", value |-> value]
Rejects(reason) == [settled |-> "rejected", reason |-> reason]

\* BaseToolHandler.executeToolHandler
ExecuteToolHandlerValue(lg, behaviour) ==
    IF behaviour.how = "returned" THEN Resolves(behaviour.result)
    ELSE LET error == behaviour.error
         IN IF LogErrorThrows(lg, error)
            THEN Rejects(ErrorValue("Error", "Converting circular structure to JSON", FALSE))
            ELSE IF InstanceOf(error, "ValidationError")
            THEN Resolves(CreateError(<<error.message>>))
            ELSE Resolves(CreateError(<<"Tool execution failed: ",
                                        IF InstanceOf(error, "Error") THEN error.message
                                        ELSE "Internal error">>))

NoExecution == [state |-> "none", logger |-> [logLevel |-> 2, enabledCategories |-> [set |-> FALSE, names |-> {}]],
                behaviour |-> [how |-> "none"], outcome |-> [settled |-> "pending"]]

\* A tool method runs its body under executeToolHandler
ExecuteToolHandler ==
    /\ execution.state = "input"
    /\ execution' = [execution EXCEPT !.state = "done",
                                      !.outcome = ExecuteToolHandlerValue(execution.logger,
                                                                        execution.behaviour)]
    /\ UNCHANGED <<serverVars, http, cooking>>

\* ---------------------------------------------------------------- the HTTP server
\* GrocyMcpServer.start: `const serverFactory = () => this.server`; every call of the
\* factory gives the instance the stdio transport is connected to
ServerFactory(call) == "this.server"

\* getServerInstance: mcpServer is a function, so it is called
GetServerInstance(call) == ServerFactory(call)

NoResponse == [path |-> "", header |-> 0, known |-> FALSE, created |-> FALSE, status |-> 0, code |-> 0]

NoHttp ==
    [listening |-> FALSE, sessions |-> 0, transports |-> <<>>, streamableTransports |-> {},
     sseTransports |-> {}, sseServerInstances |-> EmptyMap, response |-> NoResponse]

\* A transport: the server instance whose connect() was called with it, how that
\* connect ended, and whether the transport has closed
Transport(kind, instance, connect) ==
    [kind |-> kind, server |-> instance, connect |-> connect, closed |-> FALSE]

\* `delete sseTransports[sessionId]; delete sseServerInstances[sessionId]`
Cleanup(h, id) ==
    [h EXCEPT !.sseTransports = @ \ {id},
              !.sseServerInstances = [i \in DOMAIN @ \ {id} |-> @[i]]]

\* POST /mcp. header is the Mcp-Session-Id header (0: none); accept is whether the
\* Accept header names JSON or an event stream; connectOk and handled are how
\* serverInstance.connect and transport.handleRequest end.
PostMcp ==
    /\ http.listening
    /\ \E header \in 0..MaxSessions, accept \in BOOLEAN, connectOk \in BOOLEAN, handled \in BOOLEAN :
         LET request == [NoResponse EXCEPT !.path = "/mcp", !.header = header,
                                           !.known = header \in http.streamableTransports]
             id == http.sessions + 1
         IN IF ~accept
            THEN http' = [http EXCEPT !.response = [request EXCEPT !.status = 406, !.code = -32000]]
            ELSE IF header # 0
            THEN IF header \notin http.streamableTransports
                 THEN http' = [http EXCEPT !.response = [request EXCEPT !.status = 400,
                                                                        !.code = -32001]]
                 ELSE http' = [http EXCEPT !.response =
                                 IF handled THEN [request EXCEPT !.status = 200]
                                 ELSE [request EXCEPT !.status = 500, !.code = -32000]]
            ELSE /\ http.sessions < MaxSessions
                 /\ http' = [http EXCEPT
                        !.sessions = id,
                        !.streamableTransports = @ \cup {id},
                        !.transports = Append(@, Transport("streamable", GetServerInstance(id),
                                                 IF connectOk THEN "connected" ELSE "failed")),
                        !.response = IF connectOk /\ handled
                                     THEN [request EXCEPT !.status = 200, !.created = TRUE]
                                     ELSE [request EXCEPT !.status = 500, !.code = -32000,
                                                          !.created = TRUE]]
    /\ UNCHANGED <<serverVars, execution, cooking>>

\* A streamable transport closes and its onclose handler runs
TransportCloses ==
    /\ \E id \in 1..http.sessions :
         /\ http.transports[id].kind = "streamable"
         /\ ~http.transports[id].closed
         /\ http' = [http EXCEPT !.transports[id].closed = TRUE,
                                 !.streamableTransports = @ \ {id}]
    /\ UNCHANGED <<serverVars, execution, cooking>>

\* GET /mcp/sse up to the call of isolatedServer.connect(transport), which is not awaited
GetSse ==
    /\ http.listening
    /\ http.sessions < MaxSessions
    /\ LET id == http.sessions + 1
           isolatedServer == GetServerInstance(id)
       IN http' = [http EXCEPT
              !.sessions = id,
              !.sseTransports = @ \cup {id},
              !.sseServerInstances = (id :> isolatedServer) @@ @,
              !.transports = Append(@, Transport("sse", isolatedServer, "pending")),
              !.response = [NoResponse EXCEPT !.path = "/mcp/sse", !.status = 200, !.created = TRUE]]
    /\ UNCHANGED <<serverVars, execution, cooking>>

\* isolatedServer.connect(transport) settles; its catch handler cleans up
SseConnectSettles ==
    /\ \E id \in 1..http.sessions, connectOk \in BOOLEAN :
         /\ http.transports[id].kind = "sse"
         /\ http.transports[id].connect = "pending"
         /\ http' = IF connectOk
                    THEN [http EXCEPT !.transports[id].connect = "connected"]
                    ELSE [Cleanup(http, id) EXCEPT !.transports[id].connect = "failed"]
    /\ UNCHANGED <<serverVars, execution, cooking>>

\* The response of an SSE connection emits 'close' and cleanup runs
SseCloses ==
    /\ \E id \in 1..http.sessions :
         /\ http.transports[id].kind = "sse"
         /\ ~http.transports[id].closed
         /\ http' = [Cleanup(http, id) EXCEPT !.transports[id].closed = TRUE]
    /\ UNCHANGED <<serverVars, execution, cooking>>

\* POST /mcp/messages?sessionId=...
PostMessages ==
    /\ http.listening
    /\ \E sessionId \in 0..MaxSessions, handled \in BOOLEAN :
         LET request == [NoResponse EXCEPT !.path = "/mcp/messages", !.header = sessionId,
                                           !.known = sessionId \in http.sseTransports]
         IN http' = [http EXCEPT !.response =
                       IF sessionId = 0 THEN [request EXCEPT !.status = 400]
                       ELSE IF sessionId \in http.sseTransports
                       THEN [request EXCEPT !.status = IF handled THEN 202 ELSE 500]
                       ELSE [request EXCEPT !.status = 404]]
    /\ UNCHANGED <<serverVars, execution, cooking>>

\* ---------------------------------------------------------------- cookedSomething
\* `toolSubConfigs?.get(name)?.get(key) ?? default` on config.parseToolConfiguration()
OptionOr(yaml, name, key, default) ==
    LET subs == ParseToolConfiguration(yaml).toolSubConfigs
    IN IF name \in DOMAIN subs /\ key \in DOMAIN subs[name]
          /\ subs[name][key].t \notin {"undefined", "null"}
       THEN subs[name][key]
       ELSE default

\* The `required` list of the recipes_cooking_cooked_something definition, which is
\* built when recipes/definitions.ts is imported
CookedSomethingRequired(yaml) ==
    <<IF Truthy(OptionOr(yaml, "cooked_something", "allow_no_meal_plan", B(FALSE)))
      THEN "recipeId" ELSE "mealPlanEntryId",
      "stockAmounts">>

\* The options cookedSomething reads at the start of a call
HandlerOptions(yaml) ==
    [allowMealPlanEntryAlreadyDone |->
         OptionOr(yaml, "complete", "allow_meal_plan_entry_already_done", B(FALSE)),
     printLabels |-> OptionOr(yaml, "complete", "print_labels", B(TRUE)),
     allowNoMealPlan |-> OptionOr(yaml, "complete", "allow_no_meal_plan", B(FALSE))]

NoArray == [t |-> "undefined", items |-> <<>>]
Array(items) == [t |-> "array", items |-> items]

\* cookedSomething's checks of its arguments, in order: the message of the error
\* thrown, or "" when the arguments pass
ArgumentError(options, args) ==
    LET allowNoMealPlan == Truthy(options.allowNoMealPlan)
    IN IF ~allowNoMealPlan /\ ~Truthy(args.mealPlanEntryId)
       THEN "mealPlanEntryId is required when allow_no_meal_plan is false."
       ELSE IF allowNoMealPlan /\ ~Truthy(args.recipeId)
       THEN "recipeId is required when allow_no_meal_plan is true."
       ELSE IF allowNoMealPlan /\ Truthy(args.mealPlanEntryId)
       THEN "mealPlanEntryId should not be provided when allow_no_meal_plan is true."
       ELSE IF args.stockAmounts.t = "undefined"
       THEN "Missing required parameters: stockAmounts"
       ELSE IF args.stockAmounts.items = <<>>
       THEN "stockAmounts must be a non-empty array of serving amounts."
       ELSE IF \E i \in 1..Len(args.stockAmounts.items) : args.stockAmounts.items[i] <= 0
       THEN "stockAmounts must be a positive number"
       ELSE ""

RECURSIVE Sum(_)
\* stockAmounts.reduce((sum, amount) => sum + amount, 0)
Sum(amounts) == IF amounts = <<>> THEN 0 ELSE Head(amounts) + Sum(Tail(amounts))

NoCooking ==
    [entry |-> [exists |-> FALSE, done |-> 0, recipe_servings |-> 0],
     consumed |-> 0, stockSplits |-> 0, calls |-> <<>>]

\* An invocation: its position, what it read and what it has changed so far
CookCall(args, options) ==
    [pc |-> "start", args |-> args, options |-> options, seenDone |-> 0,
     marked |-> FALSE, consumed |-> FALSE, split |-> FALSE,
     result |-> [content |-> <<>>, isError |-> Undef]]

\* The handler body throws: executeToolHandler turns the error into the call's result
CookThrows(call, cls, message) ==
    [call EXCEPT !.pc = "done",
                 !.result = ExecuteToolHandlerValue(NoExecution.logger,
                                [how |-> "threw",
                                 error |-> ErrorValue(cls, message, FALSE)]).value]

\* The tools a started server serves cookedSomething under: every enabled name is a
\* tool of the registry, and recipes_cooking_cooked_something is enabled
ServesCookedSomething(yaml) ==
    /\ "recipes_cooking_cooked_something" \in ParseToolConfiguration(yaml).enabledTools
    /\ ParseToolConfiguration(yaml).enabledTools \subseteq Range(NameOrder)

\* The arguments a client may send
CookArgs ==
    [mealPlanEntryId : {Undef, N(1)}, recipeId : {Undef, N(7)},
     stockAmounts : {NoArray, Array(<<>>), Array(<<1, 0>>), Array(<<1, 2>>)}]

\* The call-tool handler invokes cookedSomething: the options are read and the
\* arguments checked; in meal-plan mode the handler then awaits the GET of the entry
CookedSomething ==
    /\ config.made /\ proc.state = "running"
    /\ ServesCookedSomething(config.yaml)
    /\ Len(cooking.calls) < MaxCooks
    /\ \E args \in CookArgs :
         LET options == HandlerOptions(config.yaml)
             call == CookCall(args, options)
             message == ArgumentError(options, args)
         IN cooking' = [cooking EXCEPT !.calls = Append(@,
                IF message = "Missing required parameters: stockAmounts"
                THEN CookThrows(call, "ValidationError", message)
                ELSE IF message # "" THEN CookThrows(call, "Error", message)
                ELSE [call EXCEPT !.pc = IF Truthy(options.allowNoMealPlan)
                                         THEN "consume" ELSE "getEntry"])]
    /\ UNCHANGED <<serverVars, execution, http>>

\* Mutant: the entry's done flag is not checked
CookGetEntryNoCheck ==
    /\ \E c \in 1..Len(cooking.calls), answers \in BOOLEAN :
         LET call == cooking.calls[c]
         IN /\ call.pc = "getEntry"
            /\ cooking' = [cooking EXCEPT !.calls[c] =
                 IF ~answers THEN CookThrows(call, "AppError", "HTTP 500")
                 ELSE IF ~cooking.entry.exists
                 THEN CookThrows(call, "Error", "Meal plan entry not found.")
                 ELSE [call EXCEPT !.pc = "putEntry", !.seenDone = cooking.entry.done]]
    /\ UNCHANGED <<serverVars, execution, http>>

\* GET /objects/meal_plan/<id> answers: the entry is checked and the PUT is sent
CookGetEntry ==
    /\ \E c \in 1..Len(cooking.calls), answers \in BOOLEAN :
         LET call == cooking.calls[c]
         IN /\ call.pc = "getEntry"
            /\ cooking' = [cooking EXCEPT !.calls[c] =
                 IF ~answers THEN CookThrows(call, "AppError", "HTTP 500")
                 ELSE IF ~cooking.entry.exists
                 THEN CookThrows(call, "Error", "Meal plan entry not found.")
                 ELSE IF cooking.entry.done = 1 /\ ~Truthy(call.options.allowMealPlanEntryAlreadyDone)
                 THEN CookThrows([call EXCEPT !.seenDone = 1], "Error",
                                 "Meal plan entry is already marked as done.")
                 ELSE [call EXCEPT !.pc = "putEntry", !.seenDone = cooking.entry.done]]
    /\ UNCHANGED <<serverVars, execution, http>>

\* PUT /objects/meal_plan/<id> { done: 1, recipe_servings } answers
CookPutEntry ==
    /\ \E c \in 1..Len(cooking.calls), answers \in BOOLEAN :
         LET call == cooking.calls[c]
         IN /\ call.pc = "putEntry"
            /\ cooking' =
                 IF answers
                 THEN [cooking EXCEPT !.entry.done = 1,
                                      !.entry.recipe_servings = Sum(call.args.stockAmounts.items),
                                      !.calls[c] = [call EXCEPT !.pc = "getShadow", !.marked = TRUE]]
                 ELSE [cooking EXCEPT !.calls[c] = CookThrows(call, "AppError", "HTTP 500")]
    /\ UNCHANGED <<serverVars, execution, http>>

\* GET /objects/recipes?query[]=name=<shadow> answers: the request fails, or no shadow
\* recipe is found, or the consume request is sent
CookGetShadow ==
    /\ \E c \in 1..Len(cooking.calls), answer \in {"fails", "none", "found"} :
         LET call == cooking.calls[c]
         IN /\ call.pc = "getShadow"
            /\ cooking' = [cooking EXCEPT !.calls[c] =
                 CASE answer = "fails" -> CookThrows(call, "AppError", "HTTP 500")
                   [] answer = "none" -> CookThrows(call, "Error", "Mealplan shadow recipe not found.")
                   [] answer = "found" -> [call EXCEPT !.pc = "consume"]]
    /\ UNCHANGED <<serverVars, execution, http>>

\* POST /recipes/<id>/consume answers
CookConsume ==
    /\ \E c \in 1..Len(cooking.calls), answers \in BOOLEAN :
         LET call == cooking.calls[c]
         IN /\ call.pc = "consume"
            /\ cooking' =
                 IF answers
                 THEN [cooking EXCEPT !.consumed = @ + 1,
                                      !.calls[c] = [call EXCEPT !.pc = "stock", !.consumed = TRUE]]
                 ELSE [cooking EXCEPT !.calls[c] = CookThrows(call, "AppError", "HTTP 500")]
    /\ UNCHANGED <<serverVars, execution, http>>

\* The rest of the handler: the recipe is read; when it produces a product with a stock
\* entry, the entry is split and labels are printed; then createSuccess
CookStock ==
    /\ \E c \in 1..Len(cooking.calls), answer \in {"fails", "no product", "split"} :
         LET call == cooking.calls[c]
             success == [content |-> <<TextEntry(<<"Operation completed successfully">>)>>,
                         isError |-> Undef]
             returned == ExecuteToolHandlerValue(NoExecution.logger,
                                                 [how |-> "returned", result |-> success]).value
         IN /\ call.pc = "stock"
            /\ cooking' =
                 CASE answer = "fails" ->
                        [cooking EXCEPT !.calls[c] = CookThrows(call, "AppError", "HTTP 500")]
                   [] answer = "no product" ->
                        [cooking EXCEPT !.calls[c] = [call EXCEPT !.pc = "done", !.result = returned]]
                   [] answer = "split" ->
                        [cooking EXCEPT !.stockSplits = @ + 1,
                                        !.calls[c] = [call EXCEPT !.pc = "done", !.split = TRUE,
                                                                  !.result = returned]]
    /\ UNCHANGED <<serverVars, execution, http>>

\* ---------------------------------------------------------------- initial states
NoEnv == [n \in EnvVars |-> Unset]

ToolCfg(enabled, ackToken, extra) == [enabled |-> enabled, ack_token |-> ackToken, extra |-> extra]

Absent == [absent |-> TRUE]

\* A tools section: the entries of `choice` that are present
ToolsSection(choice) == [n \in {m \in DOMAIN choice : choice[m] # Absent} |-> choice[n]]

FileWith(tools) == [kind |-> "object", data |-> [NoLeaves EXCEPT !.tools = tools]]

\* Everything but the inputs, before main runs
InitRest ==
    /\ config = NoConfig
    /\ proc = Running
    /\ log = <<>>
    /\ pc = "boot"
    /\ discoveredFolders = [cached |-> FALSE, list |-> <<>>]
    /\ moduleCache = EmptyMap
    /\ loadCall = NoLoadCall
    /\ toolModules = <<>>
    /\ registry = NoRegistry
    /\ enabledTools = {}
    /\ toolSubConfigs = EmptyMap
    /\ server = NoServer
    /\ last = NoRequest
    /\ nReq = 0
    /\ parsedTools = NotParsed
    /\ instanceCalls = [loadConfig |-> 0, returned |-> <<>>]
    /\ callers = <<>>
    /\ importCount = [f \in DOMAIN folderContent |-> 0]

\* No tool method is running
InitNoExecution == execution = NoExecution

\* startHttpServer has not been called
InitNoHttp == http = NoHttp

\* No tool handler has been invoked
InitNoCooking == cooking = NoCooking

\* No validator has been called
InitNoValidation == validation = NoValidation

Folders == {FolderNames[i] : i \in 1..MaxFolders}

\* What a tool folder's index.js may hold
FolderShapes(f) ==
    {ImportThrows,
     ImportGives(<<DefinitionsArrayExport(f)>>),
     ImportGives(<<ModuleExport(f, <<"a">>, NoValue, NoValue)>>),
     ImportGives(<<ModuleExport(f, <<>>, HandlerMap(f, {"a"}), NoValue)>>),
     ImportGives(<<PrimitiveExport, ModuleExport(f, <<"a">>, HandlerMap(f, {"a"}), NoValue)>>),
     ImportGives(<<DefinitionsArrayExport(f),
                   ModuleExport(f, <<"a", "b">>, HandlerMap(f, {"a"}), HandlerMap(f, {"a"}))>>),
     ImportGives(<<ModuleExport(f, <<"b">>, NullValue, NoValue)>>)}

ToolCfgChoices ==
    [a : {Absent,
          ToolCfg(B(FALSE), S("TOKEN"), EmptyMap),
          ToolCfg(Undef, Undef, "opt" :> B(TRUE)),
          ToolCfg(B(TRUE), Undef, EmptyMap),
          ToolCfg(B(TRUE), S(""), EmptyMap),
          ToolCfg(B(TRUE), S("TOKEN"), EmptyMap),
          ToolCfg(B(TRUE), S("TOKEN"), "opt" :> B(TRUE)),
          ToolCfg(B(TRUE), N(12345), EmptyMap)},
     b : {Absent, ToolCfg(B(TRUE), Undef, EmptyMap)},
     zz : {Absent, ToolCfg(B(FALSE), Undef, EmptyMap), ToolCfg(B(TRUE), Undef, EmptyMap)}]

\* The server with any tool folders and any tools section
Init ==
    /\ env \in {[NoEnv EXCEPT !["ENABLE_HTTP_SERVER"] = x] : x \in {Unset, SetTo("true")}}
    /\ file \in {FileWith(ToolsSection(c)) : c \in ToolCfgChoices}
    /\ folderContent \in {fc \in [Folders -> UNION {FolderShapes(f) : f \in Folders}] :
                            \A f \in Folders : fc[f] \in FolderShapes(f)}
    /\ readdirOk \in BOOLEAN
    /\ InitRest
    /\ InitNoValidation
    /\ InitNoExecution
    /\ InitNoHttp
    /\ InitNoCooking

Next ==
    \/ GetInstance
    \/ LoadAllModules
    \/ ImportSettles
    \/ CreateToolRegistry
    \/ Construct
    \/ Start
    \/ ListTools
    \/ CallTool

Spec == Init /\ [][Next]_vars

\* The configuration resolver alone, over the environment and the file's leaves
EnvChoices ==
    [GROCY_BASE_URL : {Unset, SetTo("http://env.example"), SetTo("")},
     GROCY_API_KEY : {Unset, SetTo(""), SetTo("envkey")},
     GROCY_ENABLE_SSL_VERIFY : {Unset, SetTo("true"), SetTo("yes")},
     REST_RESPONSE_SIZE_LIMIT : {Unset, SetTo(<<0>>), SetTo(<<0, 5>>)},
     ENABLE_HTTP_SERVER : {Unset, SetTo("false")},
     HTTP_SERVER_PORT : {Unset, SetTo(<<0>>), SetTo(<<8, 0>>), SetTo(<<7, 0, 0, 0, 0>>)}]

FileServerChoices ==
    [enable_http_server : {Undef, B(TRUE)},
     http_server_port : {Undef, N(8081), N(0)}]

FileGrocyChoices ==
    [base_url : {Undef, S("http://file.example"), S("not a url")},
     api_key : {Undef, S("filekey")},
     enable_ssl_verify : {Undef, B(FALSE)},
     response_size_limit : {Undef, N(7), N(0)}]

FileToolsChoices ==
    {EmptyMap, "a" :> ToolCfg(Undef, S("TOKEN"), "opt" :> B(TRUE))}

InitConfig ==
    /\ env \in EnvChoices
    /\ file \in {[kind |-> "missing", data |-> NoLeaves], [kind |-> "empty", data |-> NoLeaves]}
                \cup {[kind |-> "object", data |-> [server |-> s, grocy |-> g, tools |-> t]] :
                        s \in FileServerChoices, g \in FileGrocyChoices, t \in FileToolsChoices}
    /\ folderContent = EmptyMap
    /\ readdirOk = TRUE
    /\ InitRest
    /\ InitNoValidation
    /\ InitNoExecution
    /\ InitNoHttp
    /\ InitNoCooking

NextConfig == GetInstance

SpecConfig == InitConfig /\ [][NextConfig]_vars

\* The server over the tool folders of this repository
RepoFolders ==
    EmptyMap
       @@ ("household" :> ImportGives(<<ModuleExport("household", HouseholdDefinitions,
                                                         HandlerMap("household", HouseholdHandlerKeys), NoValue),
                                            DefinitionsArrayExport("household")>>))
       @@ ("inventory" :> ImportGives(<<ModuleExport("inventory", InventoryDefinitions,
                                                         HandlerMap("inventory", InventoryHandlerKeys), NoValue),
                                            DefinitionsArrayExport("inventory")>>))
       @@ ("recipes" :> ImportGives(<<ModuleExport("recipes", RecipesDefinitions,
                                                       HandlerMap("recipes", RecipesHandlerKeys), NoValue),
                                          DefinitionsArrayExport("recipes")>>))
       @@ ("shopping" :> ImportGives(<<ModuleExport("shopping", ShoppingDefinitions,
                                                        HandlerMap("shopping", ShoppingHandlerKeys), NoValue),
                                           DefinitionsArrayExport("shopping")>>))
       @@ ("system" :> ImportGives(<<ModuleExport("system", SystemDefinitions,
                                                      HandlerMap("system", SystemHandlerKeys), NoValue),
                                         DefinitionsArrayExport("system")>>))

RepoToolCfgChoices ==
    [shopping_list_get : {Absent, ToolCfg(B(TRUE), S("TOKEN"), EmptyMap)},
     shopping_list_print_thermal : {Absent, ToolCfg(B(TRUE), Undef, EmptyMap)},
     unknown_op : {Absent, ToolCfg(B(TRUE), Undef, EmptyMap)}]

InitRepo ==
    /\ env \in {[NoEnv EXCEPT !["ENABLE_HTTP_SERVER"] = x] : x \in {Unset, SetTo("true")}}
    /\ file \in {FileWith(ToolsSection(c)) : c \in RepoToolCfgChoices}
    /\ folderContent = RepoFolders
    /\ readdirOk = TRUE
    /\ InitRest
    /\ InitNoValidation
    /\ InitNoExecution
    /\ InitNoHttp
    /\ InitNoCooking

SpecRepo == InitRepo /\ [][Next]_vars

\* The process before main, with no file, no variable and no tool folder
InitIdle ==
    /\ env = NoEnv
    /\ file = [kind |-> "missing", data |-> NoLeaves]
    /\ folderContent = EmptyMap
    /\ readdirOk = TRUE
    /\ InitRest

\* An entry of a Map, when the key is given
Opt(key, value) == IF value = Absent THEN <<>> ELSE <<<<key, value>>>>

\* The values a YAML file may give an option that should be a boolean
OptionValues == {Absent, B(TRUE), B(FALSE), S("true"), Null}

\* The Maps a validator may be given: the known options, with unknown keys before or
\* after them
SubConfigInputs ==
    {Opt("zzz", before) \o Opt("allow_meal_plan_entry_already_done", done)
        \o Opt("allow_no_meal_plan", noPlan) \o Opt("print_labels", labels)
        \o Opt("ack_token", token) \o Opt("yyy", after) :
        before \in {Absent, N(1)}, done \in OptionValues, noPlan \in OptionValues,
        labels \in OptionValues, token \in {Absent, S("TOKEN")}, after \in {Absent, S("x")}}

\* The validator alone, over the Maps it may be given
InitValidate ==
    /\ InitIdle
    /\ validation \in {[NoValidation EXCEPT !.state = "input", !.subConfigs = m] :
                         m \in SubConfigInputs}
    /\ InitNoExecution
    /\ InitNoHttp
    /\ InitNoCooking

NextValidate == RunValidator

SpecValidate == InitValidate /\ [][NextValidate]_vars

\* The configuration managers alone, over files with any tools section
FileEnvChoices ==
    {NoEnv, [NoEnv EXCEPT !["GROCY_BASE_URL"] = SetTo("http://env.example")],
     [NoEnv EXCEPT !["ENABLE_HTTP_SERVER"] = SetTo("yes")]}

ToolEntryChoices ==
    [a : {Absent,
          ToolCfg(B(FALSE), Undef, "opt" :> B(TRUE)),
          ToolCfg(B(TRUE), Undef, EmptyMap),
          ToolCfg(B(TRUE), S("TOKEN"), EmptyMap),
          ToolCfg(B(TRUE), S("TOKEN"), "opt" :> B(TRUE)),
          ToolCfg(B(TRUE), S(""), "opt" :> N(3)),
          ToolCfg(S("yes"), Undef, EmptyMap),
          ToolCfg(B(TRUE), N(12345), EmptyMap)},
     b : {Absent,
          ToolCfg(B(TRUE), Undef, ("opt" :> S("x")) @@ ("other" :> Null)),
          ToolCfg(Undef, S("TOKEN"), EmptyMap)}]

FileLeafChoices ==
    {[NoLeaves EXCEPT !.server.http_server_port = port, !.grocy.base_url = url,
                      !.grocy.api_key = key] :
        port \in {Undef, N(8081), N(70000)},
        url \in {Undef, S("not a url")},
        key \in {Undef, N(1)}}

InitFile ==
    /\ env \in FileEnvChoices
    /\ file \in {[kind |-> "missing", data |-> NoLeaves], [kind |-> "scalar", data |-> NoLeaves]}
                \cup {[kind |-> "object", data |-> [leaves EXCEPT !.tools = ToolsSection(c)]] :
                        leaves \in FileLeafChoices, c \in ToolEntryChoices}
    /\ folderContent = EmptyMap
    /\ readdirOk = TRUE
    /\ InitRest
    /\ InitNoValidation
    /\ InitNoExecution
    /\ InitNoHttp
    /\ InitNoCooking

NextFile ==
    \/ GetInstance
    \/ GetInstanceCall
    \/ ParseToolConfigurationCall
    \/ YamlParseToolConfigurationCall

SpecFile == InitFile /\ [][NextFile]_vars

\* The module loader alone, under the calls of any callers
LoaderShapes(f) ==
    {ImportThrows,
     ImportGives(<<DefinitionsArrayExport(f)>>),
     ImportGives(<<PrimitiveExport, ModuleExport(f, <<"a">>, HandlerMap(f, {"a"}), NoValue)>>),
     ImportGives(<<DefinitionsArrayExport(f),
                   ModuleExport(f, <<"a", "b">>, HandlerMap(f, {"a"}), HandlerMap(f, {"a"}))>>),
     ImportGives(<<ModuleExport(f, <<"b">>, NullValue, NoValue)>>)}

InitLoader ==
    /\ env = NoEnv
    /\ file = [kind |-> "missing", data |-> NoLeaves]
    /\ folderContent \in {fc \in [Folders -> UNION {LoaderShapes(f) : f \in Folders}] :
                            \A f \in Folders : fc[f] \in LoaderShapes(f)}
    /\ readdirOk \in BOOLEAN
    /\ InitRest
    /\ InitNoValidation
    /\ InitNoExecution
    /\ InitNoHttp
    /\ InitNoCooking

NextLoader ==
    \/ CallLoadAllModules
    \/ CallerImportSettles
    \/ LoadAllModulesReturns

SpecLoader == InitLoader /\ [][NextLoader]_vars

\* executeToolHandler alone, over the loggers LOG_LEVEL and LOG_CATEGORIES may give and
\* the ways a wrapped handler may end
Loggers ==
    {[logLevel |-> l, enabledCategories |-> c] :
        l \in {LogLevelError, LogLevelWarn, 2},
        c \in {[set |-> FALSE, names |-> {}], [set |-> TRUE, names |-> {"ERROR"}],
               [set |-> TRUE, names |-> {"API"}]}}

ThrownValues ==
    {ErrorValue(cls, m, circular) :
        cls \in {"Error", "McpError", "AppError", "ApiError", "ValidationError", "string"},
        m \in {"boom", "Missing required parameters: id"},
        circular \in BOOLEAN}

HandlerBehaviours ==
    {o \in HandlerOutcomes : o.how = "returned"}
    \cup {[how |-> "threw", error |-> e] : e \in ThrownValues}

InitExecute ==
    /\ InitIdle
    /\ InitNoValidation
    /\ execution \in {[NoExecution EXCEPT !.state = "input", !.logger = lg, !.behaviour = b] :
                        lg \in Loggers, b \in HandlerBehaviours}
    /\ InitNoHttp
    /\ InitNoCooking

NextExecute == ExecuteToolHandler

SpecExecute == InitExecute /\ [][NextExecute]_vars

\* The HTTP server alone, once startHttpServer has resolved
InitHttp ==
    /\ InitIdle
    /\ InitNoValidation
    /\ InitNoExecution
    /\ http = [NoHttp EXCEPT !.listening = TRUE]
    /\ InitNoCooking

NextHttp ==
    \/ PostMcp
    \/ TransportCloses
    \/ GetSse
    \/ SseConnectSettles
    \/ SseCloses
    \/ PostMessages

SpecHttp == InitHttp /\ [][NextHttp]_vars

\* cookedSomething alone, under any options for it in the file and any state of the
\* meal plan entry
CookToolChoices ==
    [recipes_cooking_cooked_something :
         {ToolCfg(B(TRUE), Undef, EmptyMap),
          ToolCfg(B(TRUE), Undef, "allow_no_meal_plan" :> B(TRUE)),
          ToolCfg(B(TRUE), Undef, "allow_meal_plan_entry_already_done" :> B(TRUE))},
     complete : {Absent,
                 ToolCfg(B(FALSE), Undef, "allow_no_meal_plan" :> B(TRUE)),
                 ToolCfg(B(TRUE), Undef, "allow_meal_plan_entry_already_done" :> B(TRUE))},
     cooked_something : {Absent, ToolCfg(B(TRUE), Undef, "allow_no_meal_plan" :> B(TRUE))}]

InitCook ==
    /\ env = NoEnv
    /\ file \in {FileWith(ToolsSection(c)) : c \in CookToolChoices}
    /\ folderContent = EmptyMap
    /\ readdirOk = TRUE
    /\ InitRest
    /\ InitNoValidation
    /\ InitNoExecution
    /\ InitNoHttp
    /\ cooking \in {[NoCooking EXCEPT !.entry = e] :
                      e \in {[exists |-> FALSE, done |-> 0, recipe_servings |-> 0],
                             [exists |-> TRUE, done |-> 0, recipe_servings |-> 1],
                             [exists |-> TRUE, done |-> 1, recipe_servings |-> 1]}}

NextCook ==
    \/ GetInstance
    \/ CookedSomething
    \/ CookGetEntry
    \/ CookPutEntry
    \/ CookGetShadow
    \/ CookConsume
    \/ CookStock

SpecCook == InitCook /\ [][NextCook]_vars

\* ---------------------------------------------------------------- properties
\* The names the configuration file marks `enabled: true`
FileEnabled ==
    {n \in DOMAIN ConfigData(file).tools : ConfigData(file).tools[n].enabled = B(TRUE)}

\* The token the configuration file gives a tool, if any
FileHasToken(n) ==
    /\ n \in DOMAIN ConfigData(file).tools
    /\ ConfigData(file).tools[n].ack_token.t = "string"
    /\ ConfigData(file).tools[n].ack_token.v # ""

ConstructorRan == registry.built /\ pc # "registry"

Rank(n) == CHOOSE k \in 1..Len(NameOrder) : NameOrder[k] = n

StrictlySorted(names) ==
    \A i, j \in 1..Len(names) : i < j => Rank(names[i]) < Rank(names[j])

\* C1: once the constructor has run, an enabled name the registry does not know has
\* ended the process with a non-zero code, before any handler was registered, after
\* logging the invalid names with the sorted valid names; a running server's enabled
\* set holds registry names only.
C1_UnknownEnabledIsFatal ==
    ConstructorRan =>
        LET unknown == FileEnabled \ Range(GetToolNames)
        IN /\ unknown # {} =>
                /\ proc.state = "exited"
                /\ proc.code # 0
                /\ ~server.handlers
                /\ ~server.stdio
                /\ \E i \in 1..Len(log) :
                     /\ log[i].msg = "Invalid tools"
                     /\ log[i].invalid = unknown
                     /\ Range(log[i].valid) = Range(GetToolNames)
                     /\ StrictlySorted(log[i].valid)
           /\ proc.state = "running" => enabledTools \subseteq Range(GetToolNames)

C1_Witness ==
    /\ ConstructorRan
    /\ FileEnabled \ Range(GetToolNames) # {}
    /\ FileEnabled \cap Range(GetToolNames) # {}
    /\ Len(GetToolNames) >= 2
    /\ proc = Exited(1)

\* C2: a name the configuration does not enable never appears in a list-tools
\* response, and a call-tool request for it is answered with the 'not enabled' error
\* and no handler is invoked.
C2_DisabledNeverServed ==
    /\ last.kind = "list" =>
          \A i \in 1..Len(last.response.tools) : last.response.tools[i].name \in FileEnabled
    /\ (last.kind = "call" /\ last.name \notin FileEnabled) =>
          /\ last.response = McpError("InvalidRequest", <<"not enabled", last.name>>)
          /\ last.invoked = Undef
          /\ last.outcome = NotCalled

C2_Witness ==
    /\ last.kind = "call"
    /\ last.name \notin FileEnabled
    /\ last.name \in Range(GetToolNames)
    /\ GetHandler(last.name).t = "function"
    /\ enabledTools # {}
    /\ last.response.kind = "error"

\* The handler returned a result without the error marker
ReturnedClean == last.kind = "call" /\ last.outcome.how = "returned"
                 /\ ~Truthy(last.outcome.result.isError)

\* The handler returned a result with the error marker
ReturnedError == last.kind = "call" /\ last.outcome.how = "returned"
                 /\ Truthy(last.outcome.result.isError)

\* C3 (as claimed): a clean result of a tool with a configured token comes back as the
\* handler's content plus exactly one last entry that carries the token.
C3_TokenAppended ==
    (ReturnedClean /\ FileHasToken(last.name)) =>
        LET given == last.outcome.result.content
            sent == last.response.result.content
        IN /\ last.response.kind = "result"
           /\ Len(sent) = Len(given) + 1
           /\ SubSeq(sent, 1, Len(given)) = given
           /\ ConfigData(file).tools[last.name].ack_token.v \in Range(sent[Len(sent)].text)

\* C4: an error result, and any result of a tool without a configured token, comes
\* back exactly as the handler returned it.
C4_NoTokenPassThrough ==
    (last.kind = "call" /\ last.outcome.how = "returned"
       /\ (ReturnedError \/ ~FileHasToken(last.name))) =>
        /\ last.response.kind = "result"
        /\ last.response.result = last.outcome.result

C4_Witness ==
    /\ ReturnedError
    /\ FileHasToken(last.name)
    /\ last.response.result = last.outcome.result
    /\ Len(last.response.result.content) = 2

\* The value of a leaf by the stated precedence: variable, else file, else default
ByPrecedence(var, fromEnv, fileValue, default) ==
    IF env[var].set THEN fromEnv
    ELSE IF fileValue.t # "undefined" THEN fileValue
    ELSE default

\* As ByPrecedence, with a variable set to the empty string counted as unset
ByPrecedenceNonEmpty(var, fromEnv, fileValue, default) ==
    IF env[var].set /\ env[var].v # "" THEN fromEnv
    ELSE IF fileValue.t # "undefined" THEN fileValue
    ELSE default

EnvBool(var) == B(env[var].set /\ env[var].v = "true")
EnvNumber(var) == N(IF env[var].set THEN ParseInt(env[var].v) ELSE 0)
EnvString(var) == S(IF env[var].set THEN env[var].v ELSE "")

\* The leaves other than the API key follow the precedence, and the tools section is
\* the file's
OtherLeavesByPrecedence ==
    LET f == ConfigData(file)
        y == config.yaml
    IN /\ y.grocy.base_url = ByPrecedence("GROCY_BASE_URL", EnvString("GROCY_BASE_URL"),
                                          f.grocy.base_url, S("http://localhost:9283"))
       /\ y.grocy.enable_ssl_verify = ByPrecedence("GROCY_ENABLE_SSL_VERIFY",
                                          EnvBool("GROCY_ENABLE_SSL_VERIFY"),
                                          f.grocy.enable_ssl_verify, B(TRUE))
       /\ y.grocy.response_size_limit = ByPrecedence("REST_RESPONSE_SIZE_LIMIT",
                                          EnvNumber("REST_RESPONSE_SIZE_LIMIT"),
                                          f.grocy.response_size_limit, N(10000))
       /\ y.server.enable_http_server = ByPrecedence("ENABLE_HTTP_SERVER",
                                          EnvBool("ENABLE_HTTP_SERVER"),
                                          f.server.enable_http_server, B(FALSE))
       /\ y.server.http_server_port = ByPrecedence("HTTP_SERVER_PORT",
                                          EnvNumber("HTTP_SERVER_PORT"),
                                          f.server.http_server_port, N(8080))
       /\ DOMAIN y.tools = DOMAIN f.tools
       /\ \A n \in DOMAIN f.tools :
            /\ y.tools[n].ack_token = f.tools[n].ack_token
            /\ y.tools[n].extra = f.tools[n].extra
            /\ y.tools[n].enabled = IF f.tools[n].enabled.t = "undefined" THEN B(FALSE)
                                    ELSE f.tools[n].enabled

\* C5 (as claimed): every overridable leaf, the API key included, is the variable's value
\* when the variable is set, else the file's, else the default.
C5_EnvWhenSet ==
    config.made =>
        /\ OtherLeavesByPrecedence
        /\ config.yaml.grocy.api_key =
             ByPrecedence("GROCY_API_KEY", EnvString("GROCY_API_KEY"),
                          ConfigData(file).grocy.api_key, Undef)

\* C5 (amended): the same, with GROCY_API_KEY set to the empty string counted as unset.
C5_EnvWhenSetNonEmpty ==
    config.made =>
        /\ OtherLeavesByPrecedence
        /\ config.yaml.grocy.api_key =
             ByPrecedenceNonEmpty("GROCY_API_KEY", EnvString("GROCY_API_KEY"),
                                  ConfigData(file).grocy.api_key, Undef)

C5_Witness ==
    /\ config.made
    /\ env["HTTP_SERVER_PORT"] = SetTo(<<8, 0>>)
    /\ ConfigData(file).server.http_server_port = N(8081)
    /\ config.yaml.server.http_server_port = N(80)
    /\ ~env["GROCY_ENABLE_SSL_VERIFY"].set
    /\ config.yaml.grocy.enable_ssl_verify = B(FALSE)
    /\ env["GROCY_API_KEY"] = SetTo("envkey")
    /\ ConfigData(file).grocy.api_key = S("filekey")
    /\ config.yaml.tools # EmptyMap

\* C6 (as claimed): every resolved configuration has its port in 1..65535 and a
\* positive response size limit.
C6_ResolvedInRange ==
    config.made =>
        /\ config.yaml.server.http_server_port.v >= 1
        /\ config.yaml.server.http_server_port.v <= 65535
        /\ config.yaml.grocy.response_size_limit.v > 0

\* The import of a folder gave an export with the module shape
LoadSucceeded(f) ==
    /\ ~folderContent[f].throws
    /\ \E i \in 1..Len(folderContent[f].exports) : IsToolModule(folderContent[f].exports[i])

\* C7: loadAllModules resolves, whatever failed, to the bundles of exactly the folders
\* whose load succeeded, in folder order; no load is rejected and the process goes on.
C7_FailuresAreSkipped ==
    registry.built =>
        LET ok == SelectSeq(loadCall.folders, LoadSucceeded)
        IN /\ readdirOk => Range(loadCall.folders) = DOMAIN folderContent
           /\ Len(loadCall.folders) = Cardinality(Range(loadCall.folders))
           /\ \A f \in Range(loadCall.folders) : loadCall.results[f].status = "fulfilled"
           /\ Len(toolModules) = Len(ok)
           /\ \A i \in 1..Len(ok) :
                /\ toolModules[i].src = ok[i]
                /\ IsToolModule(toolModules[i])
                /\ toolModules[i] \in Range(folderContent[ok[i]].exports)

C7_Witness ==
    /\ registry.built
    /\ Len(loadCall.folders) = MaxFolders
    /\ folderContent[loadCall.folders[1]].throws
    /\ Len(toolModules) = MaxFolders - 1
    /\ MaxFolders > 1

\* C8 (as claimed): the names of the built registry are pairwise distinct, or a duplicate
\* was reported.
C8_NamesUniqueOrReported ==
    registry.built =>
        \/ \A i, j \in 1..Len(GetToolNames) : i # j => GetToolNames[i] # GetToolNames[j]
        \/ \E k \in 1..Len(log) : log[k].msg = "Duplicate tool name"

\* The names module m declares
DeclaredBy(m) == {m.definitions.items[i].name : i \in 1..Len(m.definitions.items)}

\* C9 (as claimed): a name two loaded modules declare has one definition, one handler
\* and at most one validator in the registry, each from the later module.
C9_LastWriteWins ==
    registry.built =>
        \A i, j \in 1..Len(toolModules) :
            \A n \in DeclaredBy(toolModules[i]) \cap DeclaredBy(toolModules[j]) :
                (i < j /\ \A k \in (j + 1)..Len(toolModules) : n \notin DeclaredBy(toolModules[k])) =>
                    /\ Cardinality({d \in 1..Len(GetDefinitions) : GetDefinitions[d].name = n}) = 1
                    /\ \A d \in 1..Len(GetDefinitions) :
                         GetDefinitions[d].name = n => GetDefinitions[d].src = toolModules[j].src
                    /\ GetHandler(n).t = "function"
                    /\ GetHandler(n).src = toolModules[j].src
                    /\ GetValidator(n).t = "function" => GetValidator(n).src = toolModules[j].src

\* C10 (as claimed): every name of the registry has a handler function.
C10_EveryNameHasHandler ==
    registry.built =>
        \A n \in Range(GetToolNames) : GetHandler(n).t = "function"

\* The option is absent or a boolean
AbsentOrBoolean(subConfigs, key) == MapGet(subConfigs, key).t \in {"undefined", "boolean"}

\* The three options have the right type and the two modes are not both true
TypesAndModesOk(subConfigs) ==
    /\ AbsentOrBoolean(subConfigs, "allow_meal_plan_entry_already_done")
    /\ AbsentOrBoolean(subConfigs, "allow_no_meal_plan")
    /\ AbsentOrBoolean(subConfigs, "print_labels")
    /\ ~(MapGet(subConfigs, "allow_no_meal_plan") = B(TRUE)
         /\ MapGet(subConfigs, "allow_meal_plan_entry_already_done") = B(TRUE))

AllowList == {"allow_meal_plan_entry_already_done", "allow_no_meal_plan", "print_labels", "ack_token"}

\* C11 (as claimed): a handler is never invoked with options that the validator
\* registered for its operation rejects.
C11_ValidatorGuardsHandler ==
    (last.kind = "call" /\ last.invoked # Undef /\ GetValidator(last.name).t = "function"
       /\ last.subConfigs.t = "map") =>
        ~ValidateCompleteSubConfigs(EntriesOf(last.subConfigs.map, <<"opt">>)).threw

\* C12: validateCompleteSubConfigs returns exactly when the three options are absent or
\* boolean, the two modes are not both true and every key is in the allow-list;
\* otherwise it throws, and when the types and the modes are in order the error names
\* the first key outside the allow-list and lists the option names.
C12_AcceptsExactlyValid ==
    validation.state = "done" =>
        LET m == validation.subConfigs
            out == validation.outcome
            unknown == {i \in 1..Len(m) : m[i][1] \notin AllowList}
        IN /\ ~out.threw <=> (TypesAndModesOk(m) /\ unknown = {})
           /\ (TypesAndModesOk(m) /\ unknown # {}) =>
                /\ out.threw
                /\ out.error.kind = "Unknown sub-configuration option"
                /\ \E i \in unknown : /\ out.error.key = m[i][1]
                                      /\ \A j \in unknown : i <= j
                /\ Range(out.error.validOptions) = AllowList \ {"ack_token"}

C12_Witness ==
    /\ validation.state = "done"
    /\ MapGet(validation.subConfigs, "allow_no_meal_plan") = B(TRUE)
    /\ MapGet(validation.subConfigs, "allow_meal_plan_entry_already_done") = B(FALSE)
    /\ MapGet(validation.subConfigs, "ack_token") = S("TOKEN")
    /\ {"zzz", "yyy"} \subseteq MapKeys(validation.subConfigs)
    /\ validation.outcome.threw
    /\ validation.outcome.error.key = "zzz"

\* The keys the file gives tool n besides `enabled` and `ack_token`
FileExtraKeys(n) == DOMAIN ConfigData(file).tools[n].extra

\* An entry for exactly the enabled operations with extra keys, and no reserved key in
\* any options map
OptionsOfEnabledOnly ==
    /\ DOMAIN parsedTools.toolSubConfigs = {n \in FileEnabled : FileExtraKeys(n) # {}}
    /\ \A n \in DOMAIN parsedTools.toolSubConfigs :
         /\ "enabled" \notin DOMAIN parsedTools.toolSubConfigs[n]
         /\ "ack_token" \notin DOMAIN parsedTools.toolSubConfigs[n]
         /\ parsedTools.toolSubConfigs[n] = ConfigData(file).tools[n].extra

C14_KnownEnabledNeverFatal ==
    (ConstructorRan /\ FileEnabled \subseteq Range(GetToolNames)) =>
        /\ \A i \in 1..Len(log) : log[i].msg # "Invalid tools"
        /\ server.handlers
        /\ enabledTools = FileEnabled
        /\ proc.state = "exited" =>
              (pc = "exited" /\ log[Len(log)].msg = "Failed to start HTTP server")
        /\ FileEnabled = {} =>
              /\ \E i \in 1..Len(log) : log[i] = [level |-> "warn", msg |-> "No tools enabled"]
              /\ last.kind = "list" => last.response.tools = <<>>
              /\ last.kind = "call" =>
                    /\ last.response = McpError("InvalidRequest", <<"not enabled", last.name>>)
                    /\ last.invoked = Undef

C14_Witness ==
    /\ FileEnabled = {}
    /\ "zz" \in DOMAIN ConfigData(file).tools
    /\ "zz" \notin Range(GetToolNames)
    /\ last.kind = "call"
    /\ last.name \in Range(GetToolNames)
    /\ GetHandler(last.name).t = "function"
    /\ last.response.kind = "error"
    /\ nReq = 2

\* The start-up validation rejected the configuration
ConfigRejected ==
    \E i \in 1..Len(log) :
        log[i].msg \in {"Invalid environment variables", "Invalid YAML configuration", "Invalid tools"}

\* C15: a process whose configuration was rejected has exited with a non-zero code with
\* no request handler registered and no transport connected, and has served no request;
\* every request that is served is served by a server whose file passed the schema and
\* whose enabled names are all registry names.
C15_RejectedNeverServes ==
    /\ ConfigRejected =>
          /\ proc.state = "exited"
          /\ proc.code # 0
          /\ server = NoServer
          /\ nReq = 0
          /\ last = NoRequest
    /\ (FileViolations(file) # {} \/ EnvViolations(env) # {}) => pc \in {"boot", "exited"}
    /\ (server # NoServer \/ nReq > 0) =>
          /\ FileViolations(file) = {}
          /\ EnvViolations(env) = {}
          /\ FileEnabled \subseteq Range(GetToolNames)

C15_Witness ==
    /\ ConfigRejected
    /\ log[Len(log)].msg = "Invalid tools"
    /\ config.yaml.server.enable_http_server = B(TRUE)
    /\ FileEnabled \cap Range(GetToolNames) # {}
    /\ proc = Exited(1)
    /\ server = NoServer

\* The leaves of the file that break the schema, by the schema's own words: a port that
\* is no number in 1..65535, a base URL that is no URL string, a non-string API key, a
\* non-boolean flag, a size limit that is no positive number, a non-boolean `enabled`,
\* a non-string `ack_token`; content that is no mapping breaks it at the root.
BrokenPaths ==
    IF file.kind = "scalar" THEN {<<>>}
    ELSE LET d == ConfigData(file)
             bad(path, x, type, inRange) ==
                 IF x.t # "undefined" /\ (x.t # type \/ ~inRange) THEN {path} ELSE {}
         IN bad(<<"server", "enable_http_server">>, d.server.enable_http_server, "boolean", TRUE)
            \cup bad(<<"server", "http_server_port">>, d.server.http_server_port, "number",
                     d.server.http_server_port.v \in 1..65535)
            \cup bad(<<"grocy", "base_url">>, d.grocy.base_url, "string",
                     d.grocy.base_url.v \in ValidUrls)
            \cup bad(<<"grocy", "api_key">>, d.grocy.api_key, "string", TRUE)
            \cup bad(<<"grocy", "enable_ssl_verify">>, d.grocy.enable_ssl_verify, "boolean", TRUE)
            \cup bad(<<"grocy", "response_size_limit">>, d.grocy.response_size_limit, "number",
                     d.grocy.response_size_limit.v > 0)
            \cup UNION {bad(<<"tools", n, "enabled">>, d.tools[n].enabled, "boolean", TRUE)
                        \cup bad(<<"tools", n, "ack_token">>, d.tools[n].ack_token, "string", TRUE) :
                        n \in DOMAIN d.tools}

C18_OneInstanceOneLoad ==
    /\ instanceCalls.loadConfig <= 1
    /\ \A i \in 1..Len(instanceCalls.returned) :
         /\ instanceCalls.returned[i] = instanceCalls.returned[1]
         /\ instanceCalls.returned[i] = config
         /\ instanceCalls.returned[i].id = 1
         /\ instanceCalls.returned[i].yaml =
               ApplyEnvironmentOverrides(YamlParsed(ConfigData(file)), env)

C18_Witness ==
    /\ Len(instanceCalls.returned) >= 3
    /\ instanceCalls.loadConfig = 1
    /\ env["GROCY_BASE_URL"].set
    /\ DOMAIN config.yaml.tools = {"a", "b"}

\* No loadAllModules call began while an earlier one was running
CallsInSequence == \A c \in 1..Len(callers) : ~callers[c].overlapped

\* C17: the cache holds, for every folder whose load was attempted, the outcome of that
\* load; over loadAllModules calls made one after the other every folder is imported
\* at most once and every call returns the bundles the first call returned.
C17_LoadedOnceAndCached ==
    /\ \A f \in DOMAIN moduleCache : moduleCache[f] = LoadedModuleInfo(folderContent[f])
    /\ CallsInSequence =>
          /\ \A f \in DOMAIN importCount : importCount[f] <= 1
          /\ \A c \in 1..Len(callers) :
               callers[c].returned =>
                  /\ callers[1].returned
                  /\ callers[c].toolModules = callers[1].toolModules
                  /\ c > 1 => callers[c].folders = callers[1].folders

C17_Witness ==
    /\ Len(callers) >= 2
    /\ CallsInSequence
    /\ \A c \in 1..Len(callers) : callers[c].returned
    /\ Len(callers[1].folders) >= 2
    /\ folderContent[callers[1].folders[1]].throws
    /\ Len(callers[2].toolModules) >= 1
    /\ \A f \in Range(callers[1].folders) : importCount[f] = 1

\* The handler keys of the loaded modules
DeclaredHandlerKeys ==
    UNION {DOMAIN toolModules[i].handlers.map : i \in 1..Len(toolModules)}

\* The names a caller may look up
LookupNames == {"a", "b", "zz", "no_such_tool", "toString", "constructor"}

\* C19 (as claimed): getHandler gives undefined for every name that no loaded module
\* has as a handler key.
C19_UnknownHandlerUndefined ==
    registry.built =>
        \A name \in LookupNames \ DeclaredHandlerKeys : GetHandler(name) = Undef

\* C20 (as claimed): every module the loader accepted has a non-empty definitions list
\* and a handlers map, and every definition of the registry comes from such a module.
C20_AcceptedHasDefinitionsAndHandlers ==
    registry.built =>
        /\ \A i \in 1..Len(toolModules) :
             /\ toolModules[i].definitions.isArray
             /\ Len(toolModules[i].definitions.items) > 0
             /\ toolModules[i].handlers.t = "object"
        /\ \A d \in 1..Len(GetDefinitions) :
             \E f \in DOMAIN folderContent :
                \E i \in 1..Len(folderContent[f].exports) :
                   LET x == folderContent[f].exports[i]
                   IN /\ x.obj
                      /\ x.src = GetDefinitions[d].src
                      /\ x.definitions.isArray
                      /\ GetDefinitions[d] \in Range(x.definitions.items)
                      /\ x.handlers.t = "object"

\* C21 (as claimed): executeToolHandler never rejects. When the wrapped handler resolves,
\* its result is returned unchanged; when it throws or rejects, the call resolves to a
\* result with isError set whose first content entry starts with 'Error: ' and, for an
\* Error, contains the error's message.
C21_NeverRejects ==
    execution.state = "done" =>
        /\ execution.outcome.settled = "fulfilled"
        /\ execution.behaviour.how = "returned" =>
              execution.outcome.value = execution.behaviour.result
        /\ execution.behaviour.how = "threw" =>
              LET result == execution.outcome.value
                  error == execution.behaviour.error
              IN /\ result.isError = B(TRUE)
                 /\ Head(result.content[1].text) = "Error: "
                 /\ InstanceOf(error, "Error") =>
                       error.message \in Range(result.content[1].text)

\* C22: while the server serves, after any sequence of list-tools and call-tool requests,
\* failing ones included, the enabled set, the options map and the registry are the ones
\* start-up built from the configuration and the loaded modules, and a list-tools
\* response is the enabled part of the start-up definitions, whatever was served before.
C22_RequestsLeaveStateUnchanged ==
    pc = "serving" =>
        LET startup == ParseToolConfiguration(config.yaml)
        IN /\ enabledTools = startup.enabledTools
           /\ toolSubConfigs = startup.toolSubConfigs
           /\ registry = RegistryOf(toolModules)
           /\ last.kind = "list" =>
                 last.response.tools =
                     SelectSeq(RegistryOf(toolModules).definitions,
                               LAMBDA d : d.name \in startup.enabledTools)

\* C22 witness: a list-tools request served after another request, with enabled tools,
\* configured options and a disabled definition to filter out
C22_Witness ==
    /\ pc = "serving"
    /\ nReq >= 2
    /\ last.kind = "list"
    /\ last.response.tools # <<>>
    /\ Len(last.response.tools) < Len(registry.definitions)
    /\ toolSubConfigs # EmptyMap

\* The sessions in a table whose transport is connected and open
LiveSessions ==
    {id \in http.streamableTransports \cup http.sseTransports :
        http.transports[id].connect = "connected" /\ ~http.transports[id].closed}

\* C23 (as claimed): no two live sessions are connected to the same server instance.
C23_OneInstancePerSession ==
    \A s \in LiveSessions, t \in LiveSessions :
        s # t => http.transports[s].server # http.transports[t].server

\* C29 (as claimed): the streamable-HTTP session table holds only transports that are
\* connected to a server instance and not closed, and a POST /mcp that carries an id
\* absent from the table gets the invalid-session error and creates no session.
C29_TableHoldsLiveSessions ==
    /\ \A id \in http.streamableTransports :
          http.transports[id].connect = "connected" /\ ~http.transports[id].closed
    /\ (http.response.path = "/mcp" /\ http.response.header # 0 /\ ~http.response.known) =>
          (http.response.code = -32001 /\ ~http.response.created)

\* The bundles of the folders whose index.js loads, in the order discoverFolders lists
\* the folders
ExpectedModules(folders) ==
    LET loads == SelectSeq(folders, LAMBDA f : LoadedModuleInfo(folderContent[f]).loaded)
    IN [i \in 1..Len(loads) |-> LoadedModuleInfo(folderContent[loads[i]]).toolModule]

\* C27: whatever the order in which the loads of a loadAllModules call settle, the
\* registry createToolRegistry builds from the call's value is the one built from the
\* folders and their contents alone: the same definitions list, the same handler for
\* each name and the same list of tool names.
C27_RegistryIndependentOfOrder ==
    \A c \in 1..Len(callers) :
        callers[c].returned =>
            LET built == RegistryOf(callers[c].toolModules)
                expected == RegistryOf(ExpectedModules(callers[c].folders))
            IN /\ built.definitions = expected.definitions
               /\ built.handlers = expected.handlers
               /\ [i \in 1..Len(built.definitions) |-> built.definitions[i].name]
                    = [i \in 1..Len(expected.definitions) |-> expected.definitions[i].name]

\* C27 witness: a call has returned two bundles that declare a handler under the same
\* name, after the load of the second folder settled before the load of the first
C27_Witness ==
    \E c \in 1..Len(callers) :
        /\ callers[c].returned
        /\ callers[c].outOfOrder
        /\ Len(callers[c].toolModules) = 2
        /\ callers[c].toolModules[1].handlers.t = "object"
        /\ callers[c].toolModules[2].handlers.t = "object"
        /\ RegistryOf(callers[c].toolModules).handlers["a"].src = callers[c].toolModules[2].src

\* C28 (as claimed): when a loadAllModules call starts while an earlier one is still
\* running, each folder is imported only once and the calls return the same bundles.
C28_OverlappingCallsImportOnce ==
    (\E d \in 1..Len(callers) : callers[d].overlapped) =>
        /\ \A f \in DOMAIN importCount : importCount[f] <= 1
        /\ \A c \in 1..Len(callers), d \in 1..Len(callers) :
              (callers[c].returned /\ callers[d].returned) =>
                  callers[c].toolModules = callers[d].toolModules

\* C24: in meal-plan mode with allow_meal_plan_entry_already_done false, an invocation
\* that finds its meal plan entry already done ends with an error result and has sent
\* no state-changing request: no update of the entry, no consumption, no stock change.
C24_DoneEntryIsRefused ==
    \A c \in 1..Len(cooking.calls) :
        LET call == cooking.calls[c]
        IN (/\ call.seenDone = 1
            /\ ~Truthy(call.options.allowNoMealPlan)
            /\ ~Truthy(call.options.allowMealPlanEntryAlreadyDone)) =>
               /\ call.pc = "done"
               /\ call.result.isError = B(TRUE)
               /\ ~call.marked /\ ~call.consumed /\ ~call.split

\* C24 witness: an invocation found the entry done and has ended
C24_Witness ==
    \E c \in 1..Len(cooking.calls) :
        /\ cooking.calls[c].seenDone = 1
        /\ cooking.calls[c].pc = "done"
        /\ cooking.calls[c].result.isError = B(TRUE)
        /\ cooking.entry.done = 1

\* C25 (as claimed): an invocation that ends with an error result has not marked the
\* meal plan entry done.
C25_ErrorLeavesEntryUnmarked ==
    \A c \in 1..Len(cooking.calls) :
        (cooking.calls[c].pc = "done" /\ cooking.calls[c].result.isError = B(TRUE)) =>
            ~cooking.calls[c].marked

\* C26 (as claimed): with allow_meal_plan_entry_already_done false, of the invocations
\* on the one meal plan entry at most one succeeds, and the ingredients are consumed at
\* most once.
C26_AtMostOneCooks ==
    (\A c \in 1..Len(cooking.calls) :
        /\ ~Truthy(cooking.calls[c].options.allowMealPlanEntryAlreadyDone)
        /\ ~Truthy(cooking.calls[c].options.allowNoMealPlan)) =>
        /\ Cardinality({c \in 1..Len(cooking.calls) :
                          /\ cooking.calls[c].pc = "done"
                          /\ cooking.calls[c].result.isError # B(TRUE)}) <= 1
        /\ cooking.consumed <= 1

\* The handler requires the parameter: it rejects every call that does not give it
HandlerRequires(yaml, parameter) ==
    \A args \in CookArgs :
        ~Truthy(args[parameter]) => ArgumentError(HandlerOptions(yaml), args) # ""

\* C30 (as claimed): in a server that serves recipes_cooking_cooked_something, the id
\* parameter the definition lists as required is the one the options configured for
\* recipes_cooking_cooked_something ask for, and the handler requires that parameter.
C30_SchemaAndHandlerFollowOptions ==
    (config.made /\ proc.state = "running" /\ ServesCookedSomething(config.yaml)) =>
        LET configured == IF Truthy(OptionOr(config.yaml, "recipes_cooking_cooked_something",
                                             "allow_no_meal_plan", B(FALSE)))
                          THEN "recipeId" ELSE "mealPlanEntryId"
        IN /\ CookedSomethingRequired(config.yaml)[1] = configured
           /\ HandlerRequires(config.yaml, configured)

====
